---- MODULE Spec2Model ----
(***************************************************************************)
(* Lap/sector delta engine of ok-gr: the time parser (time_to_seconds),    *)
(* the sector-delta computation (deltas_tool, summary_deltas), the         *)
(* reference-lap resolver (compute_reference_laps), the session summary    *)
(* (display_key_summary_stats), the telemetry feature extraction           *)
(* (telemetry_tool, summarize_telemetry, gg_plot), the weather summary     *)
(* (render_weather_summary) and the chat agent's tool loop (run_agent).    *)
(*                                                                         *)
(* Text is a sequence of one-character strings.  A float is a decimal      *)
(* <<m, e>> standing for m / 10^e, kept normalised (no trailing zero in m  *)
(* while e > 0); NaN is <<0, -1>>.  Binary rounding of floats is not       *)
(* modelled.                                                               *)
(***************************************************************************)
EXTENDS Integers, Sequences, FiniteSets, TLC

VARIABLES
    t,              \* argument of the last time_to_seconds call
    ret,            \* its outcome
    sectors_file,   \* the uploaded sectors CSV: a sequence of raw rows
    laps_file,      \* the uploaded top-laps CSV: a sequence of raw rows
    car_number,     \* the vehicle number the caller asks about
    deltas_ret,     \* outcome of the last deltas_tool call
    summary_ret,    \* outcome of the last summary_deltas call
    ref_ret,        \* outcome of the last compute_reference_laps call
    stats_ret,      \* outcome of the last display_key_summary_stats call
    telemetry_df,   \* the caller's (cached) telemetry table
    telemetry_ret,  \* outcome of the last telemetry_tool call
    summarize_ret,  \* outcome of the last summarize_telemetry call
    gg_ret,         \* outcome of the last gg_plot call
    steering_angle_data,     \* telemetry_tool's steering table with its rate column
    micro_corrections_count, \* telemetry_tool's count of small reversals
    total_time_seconds,      \* telemetry_tool's summed dt, in tenths of a second
    laps_pos,       \* read position of the uploaded laps file object
    reference_ret,  \* outcome of the last compute_reference_laps call of core/determine_reference.py
    weather_file,   \* the uploaded weather CSV: a sequence of rows
    weather_status, \* the status render_weather_summary showed last
    clean_history,  \* the message list run_agent was called with
    messages,       \* that list as run_agent has grown it
    agent_pc,       \* where run_agent is: idle, request, returned, raised
    agent_ret       \* what run_agent returned or raised

\* the telemetry side of the state
steeringVars == <<steering_angle_data, micro_corrections_count, total_time_seconds>>

telemetryVars == <<telemetry_df, telemetry_ret, summarize_ret, gg_ret, steeringVars>>

\* the lap-time side of the state
lapVars == <<t, ret, sectors_file, laps_file, deltas_ret, summary_ret, ref_ret, stats_ret,
             laps_pos, reference_ret>>

\* the weather summary
weatherVars == <<weather_file, weather_status>>

\* the agent run
agentVars == <<clean_history, messages, agent_pc, agent_ret>>

vars == <<t, ret, sectors_file, laps_file, car_number, deltas_ret, summary_ret, ref_ret,
          stats_ret, telemetry_df, telemetry_ret, summarize_ret, gg_ret,
          steering_angle_data, micro_corrections_count, total_time_seconds,
          laps_pos, reference_ret, weather_file, weather_status,
          clean_history, messages, agent_pc, agent_ret>>

(***************************************************************************)
(* Bounds                                                                  *)
(***************************************************************************)
\* longest text handed to time_to_seconds
MaxLen == 5
\* most rows of an uploaded sectors table
MaxRows == 3
\* most vehicles (rows) of an uploaded top-laps table
MaxVehicles == 2
\* most samples of a steering series
MaxSamples == 3
\* most rows of a telemetry table with unclean cells
MaxTelemetryRows == 2
\* most gaps (pauses of the logger) in a long steering session
MaxGaps == 2
\* most rows of an uploaded weather table
MaxWeatherRows == 2
\* most tool calls the language model asks for during one run_agent call
MaxToolCalls == 2

(***************************************************************************)
(* Decimal floats                                                          *)
(***************************************************************************)
NaN == <<0, -1>>

IsNaN(x) == x[2] < 0

RECURSIVE Pow10(_)
Pow10(n) == IF n <= 0 THEN 1 ELSE 10 * Pow10(n - 1)

RECURSIVE Norm(_, _)
Norm(m, e) == IF e > 0 /\ m % 10 = 0 THEN Norm(m \div 10, e - 1) ELSE <<m, e>>

MaxOf(a, b) == IF a >= b THEN a ELSE b

\* mantissa of x at exponent e (e >= x[2])
Mant(x, e) == x[1] * Pow10(e - x[2])

FAdd(x, y) ==
    IF IsNaN(x) \/ IsNaN(y) THEN NaN
    ELSE LET e == MaxOf(x[2], y[2]) IN Norm(Mant(x, e) + Mant(y, e), e)

FSub(x, y) ==
    IF IsNaN(x) \/ IsNaN(y) THEN NaN
    ELSE LET e == MaxOf(x[2], y[2]) IN Norm(Mant(x, e) - Mant(y, e), e)

\* x < y on floats; any comparison with NaN is false
FLt(x, y) ==
    /\ ~IsNaN(x)
    /\ ~IsNaN(y)
    /\ LET e == MaxOf(x[2], y[2]) IN Mant(x, e) < Mant(y, e)

FLe(x, y) ==
    /\ ~IsNaN(x)
    /\ ~IsNaN(y)
    /\ LET e == MaxOf(x[2], y[2]) IN Mant(x, e) <= Mant(y, e)

FInt(n) == <<n, 0>>

(***************************************************************************)
(* Python text primitives: str.split(":"), int(), float()                  *)
(***************************************************************************)
DigitChars == {"0", "1", "2", "3", "4", "5", "6", "7", "8", "9"}

DigitVal ==
    ("0" :> 0) @@ ("1" :> 1) @@ ("2" :> 2) @@ ("3" :> 3) @@ ("4" :> 4) @@
    ("5" :> 5) @@ ("6" :> 6) @@ ("7" :> 7) @@ ("8" :> 8) @@ ("9" :> 9)

SignChars == {"-", "+"}

IsDigits(s) == Len(s) > 0 /\ \A i \in 1..Len(s) : s[i] \in DigitChars

RECURSIVE DigitsVal(_)
DigitsVal(s) ==
    IF s = <<>> THEN 0
    ELSE 10 * DigitsVal(SubSeq(s, 1, Len(s) - 1)) + DigitVal[s[Len(s)]]

\* positions of character c in s
Positions(s, c) == {i \in 1..Len(s) : s[i] = c}

MinOfSet(S) == CHOOSE x \in S : \A y \in S : x <= y

RECURSIVE Split(_, _)
Split(s, c) ==
    IF Positions(s, c) = {} THEN <<s>>
    ELSE LET i == MinOfSet(Positions(s, c))
         IN  <<SubSeq(s, 1, i - 1)>> \o Split(SubSeq(s, i + 1, Len(s)), c)

Unsigned(s) == IF s # <<>> /\ s[1] \in SignChars THEN Tail(s) ELSE s

SignOf(s) == IF s # <<>> /\ s[1] = "-" THEN -1 ELSE 1

\* int(s): [ok |-> FALSE] stands for ValueError
PyInt(s) ==
    IF IsDigits(Unsigned(s))
    THEN [ok |-> TRUE, v |-> SignOf(s) * DigitsVal(Unsigned(s))]
    ELSE [ok |-> FALSE, v |-> 0]

\* float(s) on signs, digits and one decimal point: [ok |-> FALSE] stands for ValueError
PyFloat(s) ==
    LET u     == Unsigned(s)
        dots  == Positions(u, ".")
        d     == IF dots = {} THEN Len(u) + 1 ELSE MinOfSet(dots)
        ip    == SubSeq(u, 1, d - 1)
        fp    == SubSeq(u, d + 1, Len(u))
        valid == /\ Cardinality(dots) <= 1
                 /\ \A i \in 1..Len(ip) : ip[i] \in DigitChars
                 /\ \A i \in 1..Len(fp) : fp[i] \in DigitChars
                 /\ Len(ip) + Len(fp) > 0
    IN  IF valid
        THEN [ok |-> TRUE,
              v  |-> Norm(SignOf(s) * (DigitsVal(ip) * Pow10(Len(fp)) + DigitsVal(fp)), Len(fp))]
        ELSE [ok |-> FALSE, v |-> NaN]

(***************************************************************************)
(* time_to_seconds (core/delta_tool.py)                                    *)
(***************************************************************************)
\* arguments: None/NaN, a number, or text
ArgNone == [ty |-> "none", num |-> NaN, str |-> <<>>]
ArgNum(x) == [ty |-> "num", num |-> x, str |-> <<>>]
ArgStr(s) == [ty |-> "str", num |-> NaN, str |-> s]

\* outcomes: a float (NaN is the null result) or a raised ValueError
Returned(x) == [kind |-> "return", v |-> x]
Raised == [kind |-> "raise", v |-> NaN]
NotCalled == [kind |-> "none", v |-> NaN]

\* time_to_seconds with the hours of "H:MM:SS" weighted like minutes
time_to_seconds_hours60(a) ==
    IF a.ty = "none" \/ (a.ty = "num" /\ IsNaN(a.num)) THEN Returned(NaN)
    ELSE IF a.ty = "num" THEN Returned(a.num)
    ELSE LET parts == Split(a.str, ":") IN
         IF Len(parts) = 1 THEN
             IF PyFloat(parts[1]).ok THEN Returned(PyFloat(parts[1]).v) ELSE Raised
         ELSE IF Len(parts) = 2 THEN
             IF PyInt(parts[1]).ok /\ PyFloat(parts[2]).ok
             THEN Returned(FAdd(FInt(PyInt(parts[1]).v * 60), PyFloat(parts[2]).v))
             ELSE Raised
         ELSE IF Len(parts) = 3 THEN
             IF PyInt(parts[1]).ok /\ PyInt(parts[2]).ok /\ PyFloat(parts[3]).ok
             THEN Returned(FAdd(FInt(PyInt(parts[1]).v * 60 + PyInt(parts[2]).v * 60),
                                PyFloat(parts[3]).v))
             ELSE Raised
         ELSE Returned(NaN)

time_to_seconds(a) ==
    IF a.ty = "none" \/ (a.ty = "num" /\ IsNaN(a.num)) THEN Returned(NaN)
    ELSE IF a.ty = "num" THEN Returned(a.num)
    ELSE LET parts == Split(a.str, ":") IN
         IF Len(parts) = 1 THEN
             IF PyFloat(parts[1]).ok THEN Returned(PyFloat(parts[1]).v) ELSE Raised
         ELSE IF Len(parts) = 2 THEN
             IF PyInt(parts[1]).ok /\ PyFloat(parts[2]).ok
             THEN Returned(FAdd(FInt(PyInt(parts[1]).v * 60), PyFloat(parts[2]).v))
             ELSE Raised
         ELSE IF Len(parts) = 3 THEN
             IF PyInt(parts[1]).ok /\ PyInt(parts[2]).ok /\ PyFloat(parts[3]).ok
             THEN Returned(FAdd(FInt(PyInt(parts[1]).v * 3600 + PyInt(parts[2]).v * 60),
                                PyFloat(parts[3]).v))
             ELSE Raised
         ELSE Returned(NaN)

(***************************************************************************)
(* pandas.read_csv of the sectors file                                     *)
(*                                                                         *)
(* A raw row is [NUMBER, LAP_NUMBER, S1_SECONDS, S2_SECONDS, S3_SECONDS,   *)
(* LAP_TIME]: NUMBER is text, LAP_TIME is text or missing, the sector      *)
(* cells are floats or NaN (missing).  read_csv types each column: a       *)
(* column whose every cell is a number becomes numeric, any other becomes  *)
(* an object column of str cells (NaN where the cell is missing).          *)
(***************************************************************************)
Rows(df) == 1..Len(df)

NumberIsNumeric(file) == \A i \in Rows(file) : PyInt(file[i].NUMBER).ok

LapTimeIsNumeric(file) ==
    \A i \in Rows(file) : file[i].LAP_TIME.ty = "none" \/ PyFloat(file[i].LAP_TIME.str).ok

read_csv(file) ==
    [i \in Rows(file) |->
        [NUMBER      |-> IF NumberIsNumeric(file)
                         THEN ArgNum(FInt(PyInt(file[i].NUMBER).v))
                         ELSE ArgStr(file[i].NUMBER),
         LAP_NUMBER  |-> file[i].LAP_NUMBER,
         S1_SECONDS  |-> file[i].S1_SECONDS,
         S2_SECONDS  |-> file[i].S2_SECONDS,
         S3_SECONDS  |-> file[i].S3_SECONDS,
         LAP_TIME    |-> IF file[i].LAP_TIME.ty = "none" THEN ArgNone
                         ELSE IF LapTimeIsNumeric(file)
                         THEN ArgNum(PyFloat(file[i].LAP_TIME.str).v)
                         ELSE file[i].LAP_TIME]]

(***************************************************************************)
(* pandas Series helpers                                                   *)
(***************************************************************************)
\* indices of the rows a boolean mask selects, in row order
Where(n, mask) ==
    LET selected(i) == mask[i]
    IN  SelectSeq([i \in 1..n |-> i], selected)

\* df[mask]
Take(df, idx) == [k \in 1..Len(idx) |-> df[idx[k]]]

\* Series.max() where Series.min() is meant
RECURSIVE SeriesMin_max(_)
SeriesMin_max(xs) ==
    IF xs = <<>> THEN NaN
    ELSE LET rest == SeriesMin_max(Tail(xs)) IN
         IF IsNaN(Head(xs)) THEN rest
         ELSE IF IsNaN(rest) \/ FLe(rest, Head(xs)) THEN Head(xs)
         ELSE rest

\* Series.min(): the least non-NaN float, NaN when there is none
RECURSIVE SeriesMin(_)
SeriesMin(xs) ==
    IF xs = <<>> THEN NaN
    ELSE LET rest == SeriesMin(Tail(xs)) IN
         IF IsNaN(Head(xs)) THEN rest
         ELSE IF IsNaN(rest) \/ FLe(Head(xs), rest) THEN Head(xs)
         ELSE rest

\* Series.dropna()
RECURSIVE DropNa(_)
DropNa(xs) ==
    IF xs = <<>> THEN <<>>
    ELSE IF IsNaN(Head(xs)) THEN DropNa(Tail(xs))
    ELSE <<Head(xs)>> \o DropNa(Tail(xs))

Column(df, c) == [i \in Rows(df) |-> df[i][c]]

\* df["NUMBER"] == car_number: an int cell equal to the number; a str cell never is
EqNumber(df, car) == [i \in Rows(df) |-> df[i].NUMBER.ty = "num" /\ df[i].NUMBER.num = FInt(car)]

\* str(n) for n >= 0
DigitChr ==
    (0 :> "0") @@ (1 :> "1") @@ (2 :> "2") @@ (3 :> "3") @@ (4 :> "4") @@
    (5 :> "5") @@ (6 :> "6") @@ (7 :> "7") @@ (8 :> "8") @@ (9 :> "9")

RECURSIVE PyStr(_)
PyStr(n) == IF n < 10 THEN <<DigitChr[n]>> ELSE PyStr(n \div 10) \o <<DigitChr[n % 10]>>

\* df["NUMBER"].astype(str) == str(car_number)
EqNumberStr(df, car) ==
    [i \in Rows(df) |->
        IF df[i].NUMBER.ty = "num" THEN PyStr(df[i].NUMBER.num[1]) = PyStr(car)
        ELSE df[i].NUMBER.str = PyStr(car)]

\* code points of the characters of the model's texts, for str comparison
Ord ==
    ("+" :> 43) @@ ("-" :> 45) @@ ("." :> 46) @@ ("0" :> 48) @@ ("1" :> 49) @@
    ("2" :> 50) @@ ("3" :> 51) @@ ("4" :> 52) @@ ("5" :> 53) @@ ("6" :> 54) @@
    ("7" :> 55) @@ ("8" :> 56) @@ ("9" :> 57) @@ (":" :> 58) @@ ("x" :> 120)

\* a < b on str
RECURSIVE StrLt(_, _)
StrLt(a, b) ==
    IF b = <<>> THEN FALSE
    ELSE IF a = <<>> THEN TRUE
    ELSE IF Head(a) = Head(b) THEN StrLt(Tail(a), Tail(b))
    ELSE Ord[Head(a)] < Ord[Head(b)]

\* Series.min() of a raw column: numeric minimum of a numeric column, the
\* lexicographically least str of an object column, NaN cells skipped
RECURSIVE RawMin(_)
RawMin(cells) ==
    IF cells = <<>> THEN ArgNone
    ELSE LET h == Head(cells)
             rest == RawMin(Tail(cells))
         IN  IF h.ty = "none" \/ (h.ty = "num" /\ IsNaN(h.num)) THEN rest
             ELSE IF rest.ty = "none" THEN h
             ELSE IF h.ty = "num" THEN (IF FLe(h.num, rest.num) THEN h ELSE rest)
             ELSE IF rest.str = h.str \/ StrLt(h.str, rest.str) THEN h ELSE rest

(***************************************************************************)
(* deltas_tool (core/delta_tool.py)                                        *)
(***************************************************************************)
\* integer square root, rounded down
ISqrt(n) == CHOOSE r \in 0..n : r * r <= n /\ (r + 1) * (r + 1) > n

RECURSIVE SumSeq(_)
SumSeq(xs) ==
    IF xs = <<>> THEN 0
    ELSE IF Len(xs) = 1 THEN xs[1]
    ELSE SumSeq(SubSeq(xs, 1, Len(xs) \div 2)) + SumSeq(SubSeq(xs, Len(xs) \div 2 + 1, Len(xs)))

RECURSIVE MaxExp(_)
MaxExp(xs) == IF xs = <<>> THEN 0 ELSE MaxOf(Head(xs)[2], MaxExp(Tail(xs)))

\* a score known to lie in lo..hi percent (lo = hi: known exactly), or None
Score(lo, hi) == [null |-> FALSE, lo |-> lo, hi |-> hi]
NoScore == [null |-> TRUE, lo |-> 0, hi |-> 0]

\* ClampedScore without the lower clamp max(0, ...)
ClampedScore_nofloor(lap_times) ==
    LET n  == Len(lap_times)
        e  == MaxExp(lap_times)
        xs == [i \in 1..n |-> Mant(lap_times[i], e)]
        S  == SumSeq(xs)
        Q  == SumSeq([i \in 1..n |-> xs[i] * xs[i]])
        A  == n * (n * Q - S * S)
        B  == (n - 1) * S * S
        c  == ISqrt((10000 * A) \div B)
    IN  IF S = 0 THEN (IF n * Q = S * S THEN Score(100, 100) ELSE Score(0, 0))
        ELSE IF S < 0 \/ A = 0 THEN Score(100, 100)
        ELSE IF c * c * B = 10000 * A THEN Score(100 - c, 100 - c)
        ELSE Score(99 - c, 100 - c)

\* max(0, min(100, 100 - (std / mean) * 100)) over the valid lap times, len > 1
\* std is the sample standard deviation (ddof = 1)
ClampedScore(lap_times) ==
    LET n  == Len(lap_times)
        e  == MaxExp(lap_times)
        xs == [i \in 1..n |-> Mant(lap_times[i], e)]
        S  == SumSeq(xs)
        Q  == SumSeq([i \in 1..n |-> xs[i] * xs[i]])
        A  == n * (n * Q - S * S)       \* (std / mean)^2 = A / B
        B  == (n - 1) * S * S
        c  == ISqrt((10000 * A) \div B) \* floor(100 * std / mean)
    IN  IF S = 0 THEN (IF n * Q = S * S THEN Score(100, 100) ELSE Score(0, 0))
        ELSE IF S < 0 \/ A = 0 THEN Score(100, 100)
        ELSE IF A >= B THEN Score(0, 0)
        ELSE IF c * c * B = 10000 * A THEN Score(100 - c, 100 - c)
        ELSE Score(99 - c, 100 - c)

\* round(consistency_score, 2) if consistency_score else None
ReturnedScore(score) == IF score.null \/ (score.lo = 0 /\ score.hi = 0) THEN NoScore ELSE score

consistency(lap_times) ==
    IF Len(lap_times) > 1 THEN ReturnedScore(ClampedScore(lap_times)) ELSE NoScore

Bests(df) ==
    [S1  |-> SeriesMin(Column(df, "S1_SECONDS")),
     S2  |-> SeriesMin(Column(df, "S2_SECONDS")),
     S3  |-> SeriesMin(Column(df, "S3_SECONDS")),
     LAP |-> SeriesMin(Column(df, "LAP_TIME_S"))]

\* DeltaRow with a missing sector-1 time read as 0
DeltaRow_fillna(row, personal_best, reference_bests) ==
    LET s1 == IF IsNaN(row.S1_SECONDS) THEN FInt(0) ELSE row.S1_SECONDS IN
    [Lap                 |-> row.LAP_NUMBER,
     Delta_S1_Personal   |-> FSub(s1, personal_best.S1),
     Delta_S2_Personal   |-> FSub(row.S2_SECONDS, personal_best.S2),
     Delta_S3_Personal   |-> FSub(row.S3_SECONDS, personal_best.S3),
     Delta_Lap_Personal  |-> FSub(row.LAP_TIME_S, personal_best.LAP),
     Delta_S1_Reference  |-> FSub(s1, reference_bests.S1),
     Delta_S2_Reference  |-> FSub(row.S2_SECONDS, reference_bests.S2),
     Delta_S3_Reference  |-> FSub(row.S3_SECONDS, reference_bests.S3),
     Delta_Lap_Reference |-> FSub(row.LAP_TIME_S, reference_bests.LAP)]

DeltaRow(row, personal_best, reference_bests) ==
    [Lap                 |-> row.LAP_NUMBER,
     Delta_S1_Personal   |-> FSub(row.S1_SECONDS, personal_best.S1),
     Delta_S2_Personal   |-> FSub(row.S2_SECONDS, personal_best.S2),
     Delta_S3_Personal   |-> FSub(row.S3_SECONDS, personal_best.S3),
     Delta_Lap_Personal  |-> FSub(row.LAP_TIME_S, personal_best.LAP),
     Delta_S1_Reference  |-> FSub(row.S1_SECONDS, reference_bests.S1),
     Delta_S2_Reference  |-> FSub(row.S2_SECONDS, reference_bests.S2),
     Delta_S3_Reference  |-> FSub(row.S3_SECONDS, reference_bests.S3),
     Delta_Lap_Reference |-> FSub(row.LAP_TIME_S, reference_bests.LAP)]

\* DataFrame.sort_values("Lap"): equal laps keep their order
RECURSIVE InsertByLap(_, _)
InsertByLap(sorted, r) ==
    IF sorted = <<>> THEN <<r>>
    ELSE IF sorted[Len(sorted)].Lap <= r.Lap THEN Append(sorted, r)
    ELSE Append(InsertByLap(SubSeq(sorted, 1, Len(sorted) - 1), r), sorted[Len(sorted)])

\* the records left in the order of the rows
SortByLap_unsorted(rs) == rs

RECURSIVE SortByLap(_)
SortByLap(rs) ==
    IF rs = <<>> THEN <<>>
    ELSE InsertByLap(SortByLap(SubSeq(rs, 1, Len(rs) - 1)), rs[Len(rs)])

DeltasFailed(why) == [kind |-> why]

\* the optimal lap assembled from the session's bests
OptimalLapBests_session(personal_best, reference_bests) == reference_bests

\* the bests the optimal lap is assembled from: the driver's own
OptimalLapBests(personal_best, reference_bests) == personal_best

\* df["LAP_TIME"].apply(time_to_seconds) raises when one cell does
LapTimesParse(df) == \A i \in Rows(df) : time_to_seconds(df[i].LAP_TIME).kind = "return"

WithLapTimeS(df) ==
    [i \in Rows(df) |->
        [NUMBER     |-> df[i].NUMBER,
         LAP_NUMBER |-> df[i].LAP_NUMBER,
         S1_SECONDS |-> df[i].S1_SECONDS,
         S2_SECONDS |-> df[i].S2_SECONDS,
         S3_SECONDS |-> df[i].S3_SECONDS,
         LAP_TIME   |-> df[i].LAP_TIME,
         LAP_TIME_S |-> time_to_seconds(df[i].LAP_TIME).v]]

\* the rows deltas_tool keeps for the driver
DeltasDriverRows(df, car) == Where(Len(df), EqNumber(df, car))

deltas_tool(file, car) ==
    LET raw == read_csv(file) IN
    IF ~LapTimesParse(raw) THEN DeltasFailed("value_error")
    ELSE
    LET df        == WithLapTimeS(raw)
        driver_df == Take(df, DeltasDriverRows(df, car))
    IN  IF driver_df = <<>> THEN DeltasFailed("not_found")
        ELSE
        LET personal_best   == Bests(driver_df)
            reference_bests == Bests(df)
        IN  [kind              |-> "ok",
             car_number        |-> car,
             personal_best     |-> personal_best,
             optimal_lap       |-> LET b == OptimalLapBests(personal_best, reference_bests)
                                   IN  FAdd(FAdd(b.S1, b.S2), b.S3),
             reference_bests   |-> reference_bests,
             consistency_score |-> consistency(DropNa(Column(driver_df, "LAP_TIME_S"))),
             deltas            |-> SortByLap([k \in Rows(driver_df) |->
                                       DeltaRow(driver_df[k], personal_best, reference_bests)])]

(***************************************************************************)
(* summary_deltas (core/summary_deltas.py)                                 *)
(*                                                                         *)
(* The function returns nothing: its outcome is what it computes and shows *)
(* (the sector bests, the optimal lap and its gap to the leader's lap).    *)
(***************************************************************************)
\* the rows summary_deltas keeps for the driver: the numeric match, and the
\* match on str when the numeric one selects nothing
SummaryDriverRows(df, car) ==
    IF Where(Len(df), EqNumber(df, car)) # <<>> THEN Where(Len(df), EqNumber(df, car))
    ELSE Where(Len(df), EqNumberStr(df, car))

\* an object column that holds both str cells and NaN cells
MixedCells(cells) ==
    /\ \E i \in 1..Len(cells) : cells[i].ty = "str"
    /\ \E i \in 1..Len(cells) : cells[i].ty = "none"

CellsParse(cells) == \A i \in 1..Len(cells) : time_to_seconds(cells[i]).kind = "return"

ParsedMin(cells) == SeriesMin([i \in 1..Len(cells) |-> time_to_seconds(cells[i]).v])

\* strict_min: whether Series.min() of an object column compares its NaN
\* cells with its str cells (TypeError) or skips them; pandas versions differ
summary_deltas(file, car, strict_min) ==
    LET df        == read_csv(file)
        driver_df == Take(df, SummaryDriverRows(df, car))
        d_cells   == Column(driver_df, "LAP_TIME")
        s_cells   == Column(df, "LAP_TIME")
    IN  IF driver_df = <<>> THEN [kind |-> "not_found"]
        ELSE IF strict_min /\ (MixedCells(d_cells) \/ MixedCells(s_cells))
        THEN [kind |-> "type_error"]
        ELSE IF ~CellsParse(d_cells) \/ ~CellsParse(s_cells) THEN [kind |-> "value_error"]
        ELSE
        LET personal_bests ==
                [S1_SECONDS |-> SeriesMin(Column(driver_df, "S1_SECONDS")),
                 S2_SECONDS |-> SeriesMin(Column(driver_df, "S2_SECONDS")),
                 S3_SECONDS |-> SeriesMin(Column(driver_df, "S3_SECONDS")),
                 LAP_TIME   |-> RawMin(d_cells)]
            session_bests ==
                [S1_SECONDS |-> SeriesMin(Column(df, "S1_SECONDS")),
                 S2_SECONDS |-> SeriesMin(Column(df, "S2_SECONDS")),
                 S3_SECONDS |-> SeriesMin(Column(df, "S3_SECONDS")),
                 LAP_TIME   |-> RawMin(s_cells)]
            optimal_lap == FAdd(FAdd(personal_bests.S1_SECONDS, personal_bests.S2_SECONDS),
                                personal_bests.S3_SECONDS)
            driver_best_lap_s  == ParsedMin(d_cells)
            session_best_lap_s == ParsedMin(s_cells)
            leader_lap_s       == time_to_seconds(session_bests.LAP_TIME).v
        IN  [kind           |-> "ok",
             personal_bests |-> personal_bests,
             session_bests  |-> session_bests,
             optimal_lap    |-> optimal_lap,
             sector_deltas  |->
                 [S1  |-> FSub(personal_bests.S1_SECONDS, session_bests.S1_SECONDS),
                  S2  |-> FSub(personal_bests.S2_SECONDS, session_bests.S2_SECONDS),
                  S3  |-> FSub(personal_bests.S3_SECONDS, session_bests.S3_SECONDS),
                  LAP |-> FSub(driver_best_lap_s, session_best_lap_s),
                  OPT |-> FSub(optimal_lap, session_best_lap_s)],
             session_best_lap_s          |-> leader_lap_s,
             optimal_lap_delta_vs_leader |-> FSub(leader_lap_s, optimal_lap)]

(***************************************************************************)
(* compute_reference_laps (core/determine_reference_tool.py)               *)
(*                                                                         *)
(* The laps file is [cols, rows]: cols the names of the columns after      *)
(* NUMBER, a name being its sequence of parts (<<"BESTLAP_", "1">>,        *)
(* <<"BESTLAP_", "1", "_LAPNUM">>); a raw row is [NUMBER, cells], cells[k] *)
(* the text of column cols[k] or missing.  read_csv makes a column int64   *)
(* when every cell is an integer, float64 when every cell is a number or   *)
(* missing, object otherwise.                                              *)
(***************************************************************************)
CellInt(n) == [ty |-> "int", num |-> FInt(n), str |-> <<>>]
CellFloat(x) == [ty |-> "float", num |-> x, str |-> <<>>]
CellStr(s) == [ty |-> "str", num |-> NaN, str |-> s]

ColumnIsInt(rows, k) ==
    \A i \in Rows(rows) : rows[i].cells[k].ty = "str" /\ PyInt(rows[i].cells[k].str).ok

ColumnIsFloat(rows, k) ==
    \A i \in Rows(rows) : rows[i].cells[k].ty = "none" \/ PyFloat(rows[i].cells[k].str).ok

LapsNumberIsNumeric(rows) == \A i \in Rows(rows) : PyInt(rows[i].NUMBER).ok

read_laps_csv(file) ==
    [i \in Rows(file.rows) |->
        [NUMBER |-> IF LapsNumberIsNumeric(file.rows)
                    THEN ArgNum(FInt(PyInt(file.rows[i].NUMBER).v))
                    ELSE ArgStr(file.rows[i].NUMBER),
         cells  |-> [k \in 1..Len(file.cols) |->
                        LET c == file.rows[i].cells[k] IN
                        IF ColumnIsInt(file.rows, k) THEN CellInt(PyInt(c.str).v)
                        ELSE IF ColumnIsFloat(file.rows, k)
                        THEN CellFloat(IF c.ty = "none" THEN NaN ELSE PyFloat(c.str).v)
                        ELSE IF c.ty = "none" THEN CellFloat(NaN)
                        ELSE CellStr(c.str)]]]

\* col.startswith("BESTLAP_")
IsBestLapCol(col) == col # <<>> /\ Head(col) = "BESTLAP_"

\* the (col, seconds) pair a slot contributes: "skip" for a cell that is
\* neither str nor a Python int/float (an int64 cell), "raise" for a str the
\* two-part M:SS conversion rejects
SlotEntry(col, raw) ==
    IF raw.ty = "str" THEN
        LET parts == Split(raw.str, ":") IN
        IF Len(parts) = 2 /\ PyInt(parts[1]).ok /\ PyFloat(parts[2]).ok
        THEN [kind |-> "pair", lap |-> col,
              time_seconds |-> FAdd(FInt(PyInt(parts[1]).v * 60), PyFloat(parts[2]).v)]
        ELSE [kind |-> "raise", lap |-> col, time_seconds |-> NaN]
    ELSE IF raw.ty = "float" THEN [kind |-> "pair", lap |-> col, time_seconds |-> raw.num]
    ELSE [kind |-> "skip", lap |-> col, time_seconds |-> NaN]

\* the loop over lap_cols, for columns k..Len(cols)
RECURSIVE LapTimes(_, _, _)
LapTimes(cols, cells, k) ==
    IF k > Len(cols) THEN <<>>
    ELSE IF ~IsBestLapCol(cols[k]) THEN LapTimes(cols, cells, k + 1)
    ELSE LET e == SlotEntry(cols[k], cells[k]) IN
         IF e.kind = "skip" THEN LapTimes(cols, cells, k + 1)
         ELSE <<e>> \o LapTimes(cols, cells, k + 1)

\* sorted(lap_times, key = seconds): list.sort on a short list finds the
\* leading run, reverses it when strictly descending, then inserts the rest
\* by binary search; every comparison with NaN is false
ISLT(x, y) == FLt(x.time_seconds, y.time_seconds)

RECURSIVE RunLen(_, _, _)
RunLen(a, n, desc) ==
    IF n >= Len(a) THEN n
    ELSE IF ISLT(a[n + 1], a[n]) = desc THEN RunLen(a, n + 1, desc)
    ELSE n

Reverse(a) == [i \in 1..Len(a) |-> a[Len(a) + 1 - i]]

RECURSIVE BSearch(_, _, _, _)
BSearch(a, pivot, l, r) ==
    IF l >= r THEN l
    ELSE LET p == l + ((r - l) \div 2) IN
         IF ISLT(pivot, a[p + 1]) THEN BSearch(a, pivot, l, p)
         ELSE BSearch(a, pivot, p + 1, r)

RECURSIVE BinarySort(_, _)
BinarySort(a, start) ==
    IF start > Len(a) THEN a
    ELSE LET l == BSearch(a, a[start], 0, start - 1) IN
         BinarySort(SubSeq(a, 1, l) \o <<a[start]>> \o SubSeq(a, l + 1, start - 1)
                        \o SubSeq(a, start + 1, Len(a)),
                    start + 1)

sorted(a) ==
    IF Len(a) < 2 THEN a
    ELSE LET desc == ISLT(a[2], a[1])
             n    == RunLen(a, 2, desc)
             run  == IF desc THEN Reverse(SubSeq(a, 1, n)) ELSE SubSeq(a, 1, n)
         IN  BinarySort(run \o SubSeq(a, n + 1, Len(a)), n + 1)

compute_reference_laps(file, car) ==
    LET df  == read_laps_csv(file)
        idx == Where(Len(df), EqNumber(df, car))
    IN  IF idx = <<>> THEN [kind |-> "not_found"]
        ELSE
        LET lap_times == LapTimes(file.cols, df[idx[1]].cells, 1) IN
        IF \E k \in 1..Len(lap_times) : lap_times[k].kind = "raise"
        THEN [kind |-> "value_error"]
        ELSE
        LET lap_times_sorted == sorted(lap_times) IN
        IF lap_times_sorted = <<>> THEN [kind |-> "index_error"]
        ELSE [kind                     |-> "ok",
              car_number               |-> car,
              fastest_lap_name         |-> lap_times_sorted[1].lap,
              fastest_lap_time_seconds |-> lap_times_sorted[1].time_seconds,
              lap_order                |-> [k \in 1..Len(lap_times_sorted) |->
                                               [lap |-> lap_times_sorted[k].lap,
                                                time_seconds |-> lap_times_sorted[k].time_seconds]]]

\* compute_reference_laps of core/determine_reference.py: the same steps
\* without the seek(0), so read_csv starts at the position the file object
\* was left at, and raises EmptyDataError at its end
determine_reference_compute_reference_laps(file, pos, car) ==
    IF pos = "end" THEN [kind |-> "empty_data_error"]
    ELSE compute_reference_laps(file, car)

(***************************************************************************)
(* display_key_summary_stats (core/summary_key_stats.py)                   *)
(***************************************************************************)
\* lap_to_seconds: None (here NaN) for a missing cell and for every cell
\* whose str() is not "M:SS"; str() of a number holds no ":"
lap_to_seconds(x) ==
    IF x.ty = "str" THEN
        LET parts == Split(x.str, ":") IN
        IF Len(parts) = 2 /\ PyInt(parts[1]).ok /\ PyFloat(parts[2]).ok
        THEN FAdd(FInt(PyInt(parts[1]).v * 60), PyFloat(parts[2]).v)
        ELSE NaN
    ELSE NaN

\* c.startswith("BESTLAP_") and not c.endswith("_LAPNUM")
IsLapTimeCol(col) == IsBestLapCol(col) /\ col[Len(col)] # "_LAPNUM"

\* one row of df[lap_cols].applymap(lap_to_seconds), for columns k..Len(cols)
RECURSIVE RowLapTimes(_, _, _)
RowLapTimes(cols, cells, k) ==
    IF k > Len(cols) THEN <<>>
    ELSE IF ~IsLapTimeCol(cols[k]) THEN RowLapTimes(cols, cells, k + 1)
    ELSE <<lap_to_seconds(cells[k])>> \o RowLapTimes(cols, cells, k + 1)

\* df_lap_times.loc[idx].values.flatten(), for the rows idx[n..]
RECURSIVE Flatten(_, _, _, _)
Flatten(cols, df, idx, n) ==
    IF n > Len(idx) THEN <<>>
    ELSE RowLapTimes(cols, df[idx[n]].cells, 1) \o Flatten(cols, df, idx, n + 1)

AllRows(df) == [i \in Rows(df) |-> i]

\* session_sorted.index(personal_best) + 1
IndexOf(xs, x) == MinOfSet({k \in 1..Len(xs) : xs[k].time_seconds = x})

display_key_summary_stats(file, car) ==
    LET df  == read_laps_csv(file)
        idx == Where(Len(df), EqNumber(df, car))
    IN  IF idx = <<>> THEN [kind |-> "not_found"]
        ELSE
        LET driver_times == DropNa(Flatten(file.cols, df, idx, 1)) IN
        IF Len(driver_times) = 0 THEN [kind |-> "no_lap_times"]
        ELSE
        LET personal_best   == SeriesMin(driver_times)
            session_times   == DropNa(Flatten(file.cols, df, AllRows(df), 1))
            session_fastest == SeriesMin(session_times)
            session_sorted  == sorted([k \in 1..Len(session_times) |->
                                          [time_seconds |-> session_times[k]]])
        IN  [kind            |-> "ok",
             personal_best   |-> personal_best,
             driver_position |-> IndexOf(session_sorted, personal_best),
             session_fastest |-> session_fastest,
             gap_to_fastest  |-> FSub(session_fastest, personal_best)]

(***************************************************************************)
(* Telemetry tables (core/telemetry_tools.py, core/summary_telemetry.py)   *)
(*                                                                         *)
(* A table is [columns, rows]: columns the header texts, a row the         *)
(* sequence of its cells in column order.  A cell is [ty, v]: "time" a     *)
(* timestamp (v in tenths of a second), "num" a number v, "text" the text  *)
(* s, which is neither, "nat" NaT, "nan" NaN.  Steering angles are in      *)
(* hundredths of a degree.                                                 *)
(***************************************************************************)
UpperToLower ==
    ("A" :> "a") @@ ("B" :> "b") @@ ("C" :> "c") @@ ("D" :> "d") @@ ("E" :> "e") @@
    ("F" :> "f") @@ ("G" :> "g") @@ ("H" :> "h") @@ ("I" :> "i") @@ ("J" :> "j") @@
    ("K" :> "k") @@ ("L" :> "l") @@ ("M" :> "m") @@ ("N" :> "n") @@ ("O" :> "o") @@
    ("P" :> "p") @@ ("Q" :> "q") @@ ("R" :> "r") @@ ("S" :> "s") @@ ("T" :> "t") @@
    ("U" :> "u") @@ ("V" :> "v") @@ ("W" :> "w") @@ ("X" :> "x") @@ ("Y" :> "y") @@
    ("Z" :> "z")

\* str.lower()
Lower(s) == [i \in 1..Len(s) |-> IF s[i] \in DOMAIN UpperToLower THEN UpperToLower[s[i]] ELSE s[i]]

RECURSIVE LStrip(_)
LStrip(s) == IF s # <<>> /\ Head(s) = " " THEN LStrip(Tail(s)) ELSE s

\* str.strip()
Strip(s) == Reverse(LStrip(Reverse(LStrip(s))))

\* sub in s
Contains(s, sub) == \E i \in 0..(Len(s) - Len(sub)) : SubSeq(s, i + 1, i + Len(sub)) = sub

VEHICLE_COL == <<"v", "e", "h", "i", "c", "l", "e", "_", "n", "u", "m", "b", "e", "r">>

TimestampCol == <<"t", "i", "m", "e", "s", "t", "a", "m", "p">>

TelemetryNameCol == <<"t", "e", "l", "e", "m", "e", "t", "r", "y", "_", "n", "a", "m", "e">>

TelemetryValueCol == <<"t", "e", "l", "e", "m", "e", "t", "r", "y", "_", "v", "a", "l", "u", "e">>

steering_angle_name == <<"s", "t", "e", "e", "r", "i", "n", "g", "_", "a", "n", "g", "l", "e">>

TimeCell(n) == [ty |-> "time", v |-> n, s |-> <<>>]
NumCell(n) == [ty |-> "num", v |-> n, s |-> <<>>]
TextCell(s) == [ty |-> "text", v |-> 0, s |-> s]
NaT == [ty |-> "nat", v |-> 0, s |-> <<>>]
NaNCell == [ty |-> "nan", v |-> 0, s |-> <<>>]

\* position of the column named name, 0 when there is none
ColumnOf(columns, name) ==
    IF \E k \in 1..Len(columns) : columns[k] = name
    THEN MinOfSet({k \in 1..Len(columns) : columns[k] = name})
    ELSE 0

\* df.columns = df.columns.str.strip()
StripColumns(df) == [df EXCEPT !.columns = [k \in 1..Len(df.columns) |-> Strip(df.columns[k])]]

\* [c for c in df.columns if 'vehicle' in c.lower()]
RECURSIVE PotentialCols(_, _)
PotentialCols(columns, k) ==
    IF k > Len(columns) THEN <<>>
    ELSE IF Contains(Lower(columns[k]), <<"v", "e", "h", "i", "c", "l", "e">>)
    THEN <<k>> \o PotentialCols(columns, k + 1)
    ELSE PotentialCols(columns, k + 1)

\* pd.to_datetime(..., errors="coerce")
to_datetime(c) == IF c.ty = "time" THEN c ELSE NaT

\* pd.to_numeric(..., errors="coerce")
to_numeric(c) == IF c.ty = "num" THEN c ELSE NaNCell

\* .fillna(-1).astype('int64')
fillna_minus1(c) == IF c.ty = "nan" THEN NumCell(-1) ELSE c

\* the three column assignments, made on the table the caller passed
Coerce(df, vehicle_col) ==
    [df EXCEPT !.rows =
        [i \in Rows(df.rows) |->
            [k \in 1..Len(df.columns) |->
                IF k = ColumnOf(df.columns, TimestampCol) THEN to_datetime(df.rows[i][k])
                ELSE IF k = ColumnOf(df.columns, TelemetryValueCol) THEN to_numeric(df.rows[i][k])
                ELSE IF k = vehicle_col THEN fillna_minus1(to_numeric(df.rows[i][k]))
                ELSE df.rows[i][k]]]]

\* df.dropna(subset=["timestamp"]) and df[df[VEHICLE_COL] == car_number]
UserRows(df, vehicle_col, car) ==
    Where(Len(df.rows),
          [i \in Rows(df.rows) |->
              /\ df.rows[i][ColumnOf(df.columns, TimestampCol)].ty = "time"
              /\ df.rows[i][vehicle_col] = NumCell(car)])

\* get_telemetry_value: the rows of one signal as (timestamp, telemetry_value)
SignalRows(df, idx, telemetry_name) ==
    LET name_col == ColumnOf(df.columns, TelemetryNameCol)
        mask == [n \in 1..Len(idx) |->
                    /\ df.rows[idx[n]][name_col].ty = "text"
                    /\ Lower(Strip(df.rows[idx[n]][name_col].s)) = Lower(Strip(telemetry_name))]
        sel  == Where(Len(idx), mask)
    IN  [n \in 1..Len(sel) |->
            [timestamp       |-> df.rows[idx[sel[n]]][ColumnOf(df.columns, TimestampCol)].v,
             telemetry_value |-> df.rows[idx[sel[n]]][ColumnOf(df.columns, TelemetryValueCol)]]]

\* sort_values("timestamp"): equal timestamps keep their order.  The rows
\* with timestamps in lo..hi, the earlier half of the range before the later
RECURSIVE SortByTimeIn(_, _, _)
SortByTimeIn(rs, lo, hi) ==
    LET mid      == (lo + hi) \div 2
        early(r) == r.timestamp <= mid
        late(r)  == r.timestamp > mid
    IN  IF rs = <<>> \/ lo >= hi THEN rs
        ELSE SortByTimeIn(SelectSeq(rs, early), lo, mid)
                 \o SortByTimeIn(SelectSeq(rs, late), mid + 1, hi)

SortByTime(rs) ==
    IF rs = <<>> THEN <<>>
    ELSE LET times == {rs[i].timestamp : i \in 1..Len(rs)}
         IN  SortByTimeIn(rs, MinOfSet(times), -MinOfSet({-x : x \in times}))

(***************************************************************************)
(* telemetry_tool (core/telemetry_tools.py)                                *)
(*                                                                         *)
(* A steering rate of r deg/s is held as the integer RateScale * r, exact  *)
(* for angle steps in hundredths of a degree over 0.1 .. 0.5 s.            *)
(***************************************************************************)
\* 0.5 s, in tenths of a second
MAX_DT_THRESHOLD == 5

RateScale == 600

\* 5.0 deg/s, in rate units
MICRO_CORRECTION_THRESHOLD == 5 * RateScale

Abs(x) == IF x < 0 THEN -x ELSE x

\* timestamp.diff().dt.total_seconds().fillna(0)
Dt(s, i) == IF i = 1 THEN 0 ELSE s[i].timestamp - s[i - 1].timestamp

\* telemetry_value.diff() of a raw angle series
DSteer_raw(s, i) == IF s[i].telemetry_value.ty # "num" THEN 0 ELSE s[i].telemetry_value.v

\* telemetry_value.diff().fillna(0): 0 where the difference is NaN
DSteer(s, i) ==
    IF i = 1 \/ s[i].telemetry_value.ty # "num" \/ s[i - 1].telemetry_value.ty # "num" THEN 0
    ELSE s[i].telemetry_value.v - s[i - 1].telemetry_value.v

NoRate == [null |-> TRUE, v |-> 0]

\* a rate for every positive dt, however long the gap
SteeringRate_nogap(s, i) ==
    IF Dt(s, i) > 0
    THEN [null |-> FALSE, v |-> ((RateScale \div 10) * DSteer(s, i)) \div Dt(s, i)]
    ELSE NoRate

\* np.where((dt > 0) & (dt <= MAX_DT_THRESHOLD), d_steer / dt, np.nan)
SteeringRate(s, i) ==
    IF Dt(s, i) > 0 /\ Dt(s, i) <= MAX_DT_THRESHOLD
    THEN [null |-> FALSE, v |-> ((RateScale \div 10) * DSteer(s, i)) \div Dt(s, i)]
    ELSE NoRate

\* steering_angle_data with its dt, d_steer and Steering_Rate columns
SteeringAngleData(s) ==
    [i \in 1..Len(s) |->
        [timestamp       |-> s[i].timestamp,
         telemetry_value |-> s[i].telemetry_value,
         dt              |-> Dt(s, i),
         d_steer         |-> DSteer(s, i),
         Steering_Rate   |-> SteeringRate(s, i)]]

\* steering_angle_data.dropna(subset=['Steering_Rate'])
HasRate(r) == ~r.Steering_Rate.null

SteeringRateDf(data) == SelectSeq(data, HasRate)

\* n * sum(x^2) - sum(x)^2 over x = |Steering_Rate|: n (n - 1) times the variance
RateSpread(rate_df) ==
    LET n == Len(rate_df)
        S == SumSeq([i \in 1..n |-> Abs(rate_df[i].Steering_Rate.v)])
        Q == SumSeq([i \in 1..n |-> rate_df[i].Steering_Rate.v * rate_df[i].Steering_Rate.v])
    IN  n * Q - S * S

\* min(100.0, 100 * exp(-std / 20)), None when std is NaN (fewer than 2
\* rates): 100 for std = 0, a value in 0..100 for std > 0
SmoothnessScore(rate_df) ==
    IF Len(rate_df) < 2 THEN NoScore
    ELSE IF RateSpread(rate_df) = 0 THEN Score(100, 100)
    ELSE Score(0, 100)

\* np.sign(Steering_Rate.round(1)): halves round to the even tenth
RateSign(r) ==
    LET tenth == RateScale \div 10
        q == Abs(r) \div tenth
        m == Abs(r) % tenth
        n == IF 2 * m < tenth THEN q
             ELSE IF 2 * m > tenth THEN q + 1
             ELSE IF q % 2 = 0 THEN q ELSE q + 1
    IN  IF n = 0 THEN 0 ELSE IF r > 0 THEN 1 ELSE -1

\* Rate_Sign.diff().abs() > 0
SignChange(rate_df, i) ==
    i > 1 /\ RateSign(rate_df[i].Steering_Rate.v) # RateSign(rate_df[i - 1].Steering_Rate.v)

\* rows with Sign_Change & is_small_correction
MicroCorrections(rate_df) ==
    {i \in 1..Len(rate_df) :
        SignChange(rate_df, i) /\ Abs(rate_df[i].Steering_Rate.v) < MICRO_CORRECTION_THRESHOLD}

\* steering_rate_df['dt'].sum(), in tenths of a second
TotalTime(rate_df) == SumSeq([i \in 1..Len(rate_df) |-> rate_df[i].dt])

\* count / (total_time_seconds / 60) when total_time_seconds > 60, else 0;
\* the quotient is held as [num, den]
MicroPerMinute(rate_df) ==
    IF TotalTime(rate_df) > 60 * 10
    THEN [num |-> Cardinality(MicroCorrections(rate_df)) * 60 * 10, den |-> TotalTime(rate_df)]
    ELSE [num |-> 0, den |-> 1]

\* |telemetry_value| of the samples that have a value
AbsAngles(data) ==
    LET num(r) == r.telemetry_value.ty = "num"
        vals == SelectSeq(data, num)
    IN  [i \in 1..Len(vals) |-> Abs(vals[i].telemetry_value.v)]

RECURSIVE MaxSeq(_)
MaxSeq(xs) ==
    IF Len(xs) = 1 THEN xs[1]
    ELSE MaxOf(MaxSeq(SubSeq(xs, 1, Len(xs) \div 2)),
               MaxSeq(SubSeq(xs, Len(xs) \div 2 + 1, Len(xs))))

\* the features telemetry_tool returns; a mean is held as [sum, n]
Features(s, car) ==
    LET data    == SteeringAngleData(s)
        rate_df == SteeringRateDf(data)
        angles  == AbsAngles(data)
    IN  [kind                         |-> "ok",
         car_number                   |-> car,
         steering_smoothness_score    |-> SmoothnessScore(rate_df),
         micro_corrections_per_minute |-> MicroPerMinute(rate_df),
         steering_usage               |->
             [max_abs_angle     |-> IF angles = <<>> THEN [null |-> TRUE, v |-> 0]
                                    ELSE [null |-> FALSE, v |-> MaxSeq(angles)],
              avg_abs_angle     |-> IF angles = <<>> THEN [null |-> TRUE, sum |-> 0, n |-> 0]
                                    ELSE [null |-> FALSE, sum |-> SumSeq(angles), n |-> Len(angles)],
              std_steering_rate |-> IF Len(rate_df) < 2 THEN [null |-> TRUE, spread |-> 0, n |-> 0]
                                    ELSE [null |-> FALSE, spread |-> RateSpread(rate_df),
                                          n |-> Len(rate_df)]]]

\* the values telemetry_tool works with before it builds its result
Steering(s) ==
    LET data    == SteeringAngleData(s)
        rate_df == SteeringRateDf(data)
    IN  [steering_angle_data     |-> data,
         micro_corrections_count |-> Cardinality(MicroCorrections(rate_df)),
         total_time_seconds      |-> TotalTime(rate_df)]

\* a call that ended before the steering analysis
NoSteering ==
    [steering_angle_data |-> <<>>, micro_corrections_count |-> 0, total_time_seconds |-> 0]

\* telemetry_tool: its outcome, the table it leaves with the caller and the
\* steering values it worked with.
\* "raise Warning" after the fallback column is found ends the call.
telemetry_tool(df, car) ==
    LET stripped  == StripColumns(df)
        exact     == ColumnOf(stripped.columns, VEHICLE_COL)
        potential == PotentialCols(stripped.columns, 1)
    IN  IF exact = 0 /\ potential # <<>>
        THEN [ret |-> [kind |-> "warning_using_column"], df |-> stripped, steering |-> NoSteering]
        ELSE IF exact = 0
        THEN [ret |-> [kind |-> "value_error"], df |-> stripped, steering |-> NoSteering]
        ELSE
        LET coerced == Coerce(stripped, exact)
            idx     == UserRows(coerced, exact, car)
        IN  IF idx = <<>>
            THEN [ret |-> [kind |-> "warning_no_telemetry"], df |-> coerced,
                  steering |-> NoSteering]
            ELSE [ret |-> Features(SortByTime(SignalRows(coerced, idx, steering_angle_name)), car),
                  df  |-> coerced,
                  steering |-> Steering(SortByTime(SignalRows(coerced, idx, steering_angle_name)))]

(***************************************************************************)
(* summarize_telemetry and gg_plot (core/summary_telemetry.py): the        *)
(* cleaning both start with, and whether they go on to draw                *)
(***************************************************************************)
PlotPrep(df, car) ==
    LET stripped  == StripColumns(df)
        exact     == ColumnOf(stripped.columns, VEHICLE_COL)
        potential == PotentialCols(stripped.columns, 1)
        vehicle_col == IF exact # 0 THEN exact ELSE potential[1]
    IN  IF exact = 0 /\ potential = <<>>
        THEN [ret |-> [kind |-> "no_column"], df |-> stripped]
        ELSE
        LET coerced == Coerce(stripped, vehicle_col) IN
        IF UserRows(coerced, vehicle_col, car) = <<>>
        THEN [ret |-> [kind |-> "no_telemetry"], df |-> coerced]
        ELSE [ret |-> [kind |-> "shown"], df |-> coerced]

summarize_telemetry(df, car) == PlotPrep(df, car)

gg_plot(df, car) == PlotPrep(df, car)

(***************************************************************************)
(* render_weather_summary (core/summary_weather.py)                        *)
(*                                                                         *)
(* A weather row is [RAIN, WIND_SPEED, HUMIDITY]; a mean is compared       *)
(* through the sum, and the mean of no rows is NaN, greater than nothing.  *)
(***************************************************************************)
\* df[c].sum()
ColumnSum(df, c) == SumSeq([i \in 1..Len(df) |-> df[i][c]])

\* df[c].mean() > limit
MeanAbove(df, c, limit) == Len(df) > 0 /\ ColumnSum(df, c) > limit * Len(df)

\* "Rain Detected" if df["RAIN"].sum() > 0 else "No Rain"
rain_detected(df) == IF ColumnSum(df, "RAIN") > 0 THEN "Rain Detected" ELSE "No Rain"

\* the truth value Python gives a str in a condition
Truthy(str) == str # ""

\* the status shown
render_weather_summary(file) ==
    IF Truthy(rain_detected(file)) THEN "Rainy Conditions"
    ELSE IF MeanAbove(file, "WIND_SPEED", 8) THEN "Windy"
    ELSE IF MeanAbove(file, "HUMIDITY", 70) THEN "Humid / Cloudy"
    ELSE "Clear & Dry"

(***************************************************************************)
(* run_agent and its tools (core/gr_agent.py)                              *)
(*                                                                         *)
(* A message is [role, content, tool_calls, tool_call_id]; a tool call is  *)
(* [id, name, arguments], arguments being "valid" (JSON with the tool's    *)
(* parameters and the key of an uploaded file), "unknown_key" (JSON naming *)
(* a key that is not in the session state) or "not_json".  The content of  *)
(* a tool message is the status of the tool's result.                      *)
(***************************************************************************)
tool_map ==
    {"tool_compute_reference_laps", "tool_compute_deltas", "tool_time_to_seconds",
     "tool_generate_session_summary", "tool_telemetry_summary"}

Message(role, content) ==
    [role |-> role, content |-> content, tool_calls |-> <<>>, tool_call_id |-> 0]

SYSTEM_PROMPT == Message("system", "persona")

\* the wrappers: a missing key and every exception of the core become an
\* error result
tool_compute_reference_laps(arguments, file, car) ==
    IF arguments = "unknown_key" THEN "error"
    ELSE IF compute_reference_laps(file, car).kind = "ok" THEN "success" ELSE "error"

tool_compute_deltas(arguments, file, car) ==
    IF arguments = "unknown_key" THEN "error"
    ELSE IF deltas_tool(file, car).kind = "ok" THEN "success" ELSE "error"

tool_telemetry_summary(arguments, df, car) ==
    IF arguments = "unknown_key" THEN "error"
    ELSE IF telemetry_tool(df, car).ret.kind = "ok" THEN "success" ELSE "error"

tool_time_to_seconds(a) == IF time_to_seconds(a).kind = "return" THEN "seconds" ELSE "error"

\* the summary comes from the language model service, taken to answer
tool_generate_session_summary == "success"

\* json.loads(tool_call.function.arguments) and tool_map[name] are not
\* inside any try: the exception they raise, "" when they raise none
DispatchError(tool_call) ==
    IF tool_call.arguments = "not_json" THEN "JSONDecodeError"
    ELSE IF tool_call.name \notin tool_map THEN "KeyError"
    ELSE ""

\* result = tool_fn(**args)
ToolResult(tool_call, sectors, laps, df, car, a) ==
    CASE tool_call.name = "tool_compute_reference_laps" ->
             tool_compute_reference_laps(tool_call.arguments, laps, car)
      [] tool_call.name = "tool_compute_deltas" ->
             tool_compute_deltas(tool_call.arguments, sectors, car)
      [] tool_call.name = "tool_telemetry_summary" ->
             tool_telemetry_summary(tool_call.arguments, df, car)
      [] tool_call.name = "tool_time_to_seconds" -> tool_time_to_seconds(a)
      [] OTHER -> tool_generate_session_summary

\* a tool message without the id of its call
ToolMessage_anonymous(tool_call, result) ==
    [role |-> "tool", content |-> result, tool_calls |-> <<>>, tool_call_id |-> 0]

\* {"role": "tool", "tool_call_id": tool_call.id, "content": json.dumps(result)}
ToolMessage(tool_call, result) ==
    [role |-> "tool", content |-> result, tool_calls |-> <<>>, tool_call_id |-> tool_call.id]

\* any(m.get("role") == "system" for m in messages)
HasSystem(msgs) == \E i \in 1..Len(msgs) : msgs[i].role = "system"

\* the list after the persona check
WithPersona(msgs) == IF HasSystem(msgs) THEN msgs ELSE <<SYSTEM_PROMPT>> \o msgs

\* the tool calls of the for loop that are executed: those before the first
\* one whose dispatch raises
Executed(tool_calls) ==
    IF \E j \in 1..Len(tool_calls) : DispatchError(tool_calls[j]) # ""
    THEN MinOfSet({j \in 1..Len(tool_calls) : DispatchError(tool_calls[j]) # ""}) - 1
    ELSE Len(tool_calls)

\* the tool calls asked for so far
Requested(msgs) == SumSeq([i \in 1..Len(msgs) |-> Len(msgs[i].tool_calls)])

\* the replies of the language model so far
Replies(msgs) == Len(SelectSeq(msgs, LAMBDA m : m.role = "assistant"))

(***************************************************************************)
(* Inputs                                                                  *)
(***************************************************************************)
\* characters of the texts handed to time_to_seconds
ParseChars == {"0", "1", "7", ":", ".", "-", "x"}

Texts == UNION {[1..n -> ParseChars] : n \in 0..MaxLen}

TimeArgs ==
    {ArgNone} \cup {ArgNum(x) : x \in {NaN, FInt(0), FInt(85), <<85342, 3>>}}
              \cup {ArgStr(s) : s \in Texts}

CarNumbers == {7, 9}

MkSectorsFile(f) ==
    [i \in 1..Len(f) |->
        [NUMBER     |-> f[i].NUMBER,
         LAP_NUMBER |-> i,
         S1_SECONDS |-> f[i].sectors[1],
         S2_SECONDS |-> f[i].sectors[2],
         S3_SECONDS |-> f[i].sectors[3],
         LAP_TIME   |-> f[i].LAP_TIME]]

SectorsFiles(rows) == UNION {{MkSectorsFile(f) : f \in [1..n -> rows]} : n \in 0..MaxRows}

\* well-formed session tables: numeric vehicle numbers, sector times or
\* missing, lap times M:SS or missing
CleanLaps ==
    {[sectors |-> <<FInt(2), FInt(1), FInt(2)>>, LAP_TIME |-> ArgStr(<<"0", ":", "0", "5">>)],
     [sectors |-> <<FInt(1), FInt(2), FInt(2)>>, LAP_TIME |-> ArgStr(<<"0", ":", "0", "5">>)],
     [sectors |-> <<FInt(1), FInt(1), FInt(1)>>, LAP_TIME |-> ArgStr(<<"0", ":", "0", "3">>)],
     [sectors |-> <<NaN, FInt(1), FInt(1)>>, LAP_TIME |-> ArgStr(<<"0", ":", "0", "9">>)],
     [sectors |-> <<FInt(2), FInt(1), FInt(2)>>, LAP_TIME |-> ArgNone]}

CleanRows ==
    {[NUMBER |-> n, sectors |-> l.sectors, LAP_TIME |-> l.LAP_TIME] :
        n \in {<<"7">>, <<"9">>}, l \in CleanLaps}

\* session tables as uploaded: vehicle numbers stored as text next to a
\* non-numeric one, lap times in mixed shapes, malformed lap times
DirtyRows ==
    [NUMBER   : {<<"7">>, <<"9">>, <<"x">>},
     sectors  : {<<FInt(1), FInt(1), FInt(1)>>},
     LAP_TIME : {ArgNone, ArgStr(<<"0", ":", "0", "1">>), ArgStr(<<"9">>),
                 ArgStr(<<"0", ":", "1", "0">>), ArgStr(<<"x">>)}]

\* session tables whose rows come in any lap order: the rows of vehicle 7
\* carry any lap number and a lap time of 1 s or 9 s, between first laps of
\* vehicle 9
ShuffledRows ==
    [NUMBER     : {<<"7">>},
     LAP_NUMBER : 1..MaxRows,
     LAP_TIME   : {ArgStr(<<"0", ":", "0", "1">>), ArgStr(<<"0", ":", "0", "9">>)}]
    \cup {[NUMBER |-> <<"9">>, LAP_NUMBER |-> 1, LAP_TIME |-> ArgStr(<<"0", ":", "0", "9">>)]}

MkShuffledFile(f) ==
    [i \in 1..Len(f) |->
        [NUMBER     |-> f[i].NUMBER,
         LAP_NUMBER |-> f[i].LAP_NUMBER,
         S1_SECONDS |-> FInt(1),
         S2_SECONDS |-> FInt(1),
         S3_SECONDS |-> FInt(1),
         LAP_TIME   |-> f[i].LAP_TIME]]

ShuffledFiles == UNION {{MkShuffledFile(f) : f \in [1..n -> ShuffledRows]} : n \in 0..MaxRows}

\* top-laps tables: slots BESTLAP_1, BESTLAP_2 and the lap number of slot 1
LapsCols == <<<<"BESTLAP_", "1">>, <<"BESTLAP_", "1", "_LAPNUM">>, <<"BESTLAP_", "2">>>>

SlotCells == {ArgNone, ArgStr(<<"0", ":", "0", "9">>), ArgStr(<<"0", ":", "0", "8">>),
              ArgStr(<<"x">>)}

LapNumCells == {ArgNone, ArgStr(<<"3">>)}

LapsRows ==
    {[NUMBER |-> n, cells |-> <<a, l, b>>] :
        n \in {<<"7">>, <<"9">>}, a \in SlotCells, l \in LapNumCells, b \in SlotCells}

\* a table without any best-lap column
BareRows == {[NUMBER |-> n, cells |-> <<>>] : n \in {<<"7">>, <<"9">>}}

LapsFiles ==
    {[cols |-> LapsCols, rows |-> r] : r \in UNION {[1..n -> LapsRows] : n \in 0..MaxVehicles}}
    \cup {[cols |-> <<>>, rows |-> r] : r \in UNION {[1..n -> BareRows] : n \in 1..MaxVehicles}}

\* steering series of vehicle 7 in a clean table: samples at 0.0, 0.1, 0.2
\* and 0.7 s in any order, angles of 0, 0.02 and 1 degree or missing
CleanColumns == <<TimestampCol, VEHICLE_COL, TelemetryNameCol, TelemetryValueCol>>

SteerTimes == {0, 1, 2, 7}

SteerAngles == {NumCell(0), NumCell(2), NumCell(100), NaNCell}

SteerRows ==
    {<<TimeCell(ts), NumCell(7), TextCell(steering_angle_name), a>> :
        ts \in SteerTimes, a \in SteerAngles}

SteerTables ==
    {[columns |-> CleanColumns, rows |-> r] :
        r \in UNION {[1..n -> SteerRows] : n \in 0..MaxSamples}}

\* telemetry tables as delivered: the vehicle column under several headers,
\* unparseable timestamps, vehicle numbers and values, unclean signal names
VehicleHeaders == {VEHICLE_COL, <<" ", "v", "e", "h", "i", "c", "l", "e", "_", "n", "u", "m", "b", "e", "r">>, <<"V", "e", "h", "i", "c", "l", "e", "_", "I", "D">>, <<"c", "a", "r">>}

UncleanRows ==
    {<<ts, v, TextCell(<<" ", "S", "t", "e", "e", "r", "i", "n", "g", "_", "A", "n", "g", "l", "e">>), a>> :
        ts \in {TimeCell(0), TextCell(<<"?">>)},
        v  \in {NumCell(7), TextCell(<<"x">>)},
        a  \in {NumCell(100), TextCell(<<"?">>)}}

UncleanTables ==
    {[columns |-> <<TimestampCol, h, TelemetryNameCol, TelemetryValueCol>>, rows |-> r] :
        h \in VehicleHeaders, r \in UNION {[1..n -> UncleanRows] : n \in 0..MaxTelemetryRows}}

TelemetryCars == {7, 9, -1}

\* steering sessions of about a minute of vehicle 7: a sample every 0.5 s,
\* the logger pausing for one more second before the samples at the gap
\* positions, the angle repeating a pattern of 0 and 0.1 degree
SessionLengths == {121, 122, 123}

GapPositions == {2, 30, 60, 90, 121}

SessionPatterns == {<<0>>, <<0, 10>>, <<0, 10, 10>>}

SessionTable(len, gaps, pat) ==
    [columns |-> CleanColumns,
     rows    |-> [i \in 1..len |->
                    <<TimeCell(5 * (i - 1) + 10 * Cardinality({g \in gaps : g <= i})),
                      NumCell(7),
                      TextCell(steering_angle_name),
                      NumCell(pat[((i - 1) % Len(pat)) + 1])>>]]

SessionTables ==
    {SessionTable(len, gaps, pat) :
        len \in SessionLengths,
        gaps \in {G \in SUBSET GapPositions : Cardinality(G) <= MaxGaps},
        pat \in SessionPatterns}

\* weather tables: rain or none, wind and humidity around their limits
WeatherRows == [RAIN : {0, 1}, WIND_SPEED : {0, 8, 9}, HUMIDITY : {50, 70, 71}]

WeatherFiles == UNION {[1..n -> WeatherRows] : n \in 0..MaxWeatherRows}

\* what the language model can ask for: each tool with proper arguments, a
\* tool with the key of no uploaded file, arguments that are not JSON, and a
\* tool that does not exist
ToolRequests ==
    {[name |-> n, arguments |-> "valid"] : n \in tool_map \cup {"tool_plot_lap"}}
    \cup {[name |-> "tool_compute_deltas", arguments |-> a] : a \in {"unknown_key", "not_json"}}

\* the chat so far, ending with the user's prompt
Histories ==
    {<<Message("user", "prompt")>>,
     <<Message("assistant", "greeting"), Message("user", "prompt")>>,
     <<Message("system", "persona"), Message("assistant", "greeting"),
       Message("user", "prompt")>>}

\* the uploads of the chat: the sectors file of vehicle 7 with or without a
\* malformed lap time, its laps file and its telemetry
AgentSectorsFiles ==
    {MkSectorsFile(<<[NUMBER |-> <<"7">>, sectors |-> <<FInt(2), FInt(1), FInt(2)>>,
                      LAP_TIME |-> l]>>) :
        l \in {ArgStr(<<"0", ":", "0", "5">>), ArgStr(<<"x">>)}}

AgentLapsFile ==
    [cols |-> LapsCols,
     rows |-> <<[NUMBER |-> <<"7">>,
                 cells  |-> <<ArgStr(<<"0", ":", "0", "9">>), ArgStr(<<"3">>),
                              ArgStr(<<"0", ":", "0", "8">>)>>]>>]

AgentTelemetry ==
    [columns |-> CleanColumns,
     rows    |-> <<<<TimeCell(0), NumCell(7), TextCell(steering_angle_name), NumCell(0)>>,
                   <<TimeCell(1), NumCell(7), TextCell(steering_angle_name), NumCell(2)>>>>]

(***************************************************************************)
(* Specifications                                                          *)
(***************************************************************************)
NoFile == <<>>
NoLapsFile == [cols |-> <<>>, rows |-> <<>>]
NoResult == [kind |-> "none"]
NoTable == [columns |-> <<>>, rows |-> <<>>]

NoReturn == [kind |-> "none", content |-> ""]

Idle ==
    /\ ret = NotCalled
    /\ deltas_ret = NoResult
    /\ summary_ret = NoResult
    /\ ref_ret = NoResult
    /\ stats_ret = NoResult
    /\ telemetry_ret = NoResult
    /\ summarize_ret = NoResult
    /\ gg_ret = NoResult
    /\ steering_angle_data = <<>>
    /\ micro_corrections_count = 0
    /\ total_time_seconds = 0
    /\ laps_pos = "start"
    /\ reference_ret = NoResult
    /\ weather_status = "none"
    /\ messages = <<>>
    /\ agent_pc = "idle"
    /\ agent_ret = NoReturn

\* a caller (the agent's tool, a table column) converts one lap time
CallTimeToSeconds ==
    /\ ret = NotCalled
    /\ ret' = time_to_seconds(t)
    /\ UNCHANGED <<t, sectors_file, laps_file, car_number, deltas_ret, summary_ret, ref_ret,
                   stats_ret, telemetryVars,
                   laps_pos, reference_ret, weatherVars, agentVars>>

\* the agent's tool runs deltas_tool on the uploaded sectors file
DeltasTool ==
    /\ deltas_ret' = deltas_tool(sectors_file, car_number)
    /\ UNCHANGED <<t, ret, sectors_file, laps_file, car_number, summary_ret, ref_ret,
                   stats_ret, telemetryVars,
                   laps_pos, reference_ret, weatherVars, agentVars>>

\* the dashboard runs summary_deltas on the uploaded sectors file
SummaryDeltas ==
    /\ \E strict_min \in BOOLEAN :
        summary_ret' = summary_deltas(sectors_file, car_number, strict_min)
    /\ UNCHANGED <<t, ret, sectors_file, laps_file, car_number, deltas_ret, ref_ret,
                   stats_ret, telemetryVars,
                   laps_pos, reference_ret, weatherVars, agentVars>>

\* the agent's tool runs compute_reference_laps on the uploaded laps file
ComputeReferenceLaps ==
    /\ ref_ret' = compute_reference_laps(laps_file, car_number)
    /\ laps_pos' = "end"
    /\ UNCHANGED <<t, ret, sectors_file, laps_file, car_number, deltas_ret, summary_ret,
                   stats_ret, telemetryVars,
                   reference_ret, weatherVars, agentVars>>

\* the dashboard runs display_key_summary_stats on the uploaded laps file
DisplayKeySummaryStats ==
    /\ stats_ret' = display_key_summary_stats(laps_file, car_number)
    /\ laps_pos' = "end"
    /\ UNCHANGED <<t, ret, sectors_file, laps_file, car_number, deltas_ret, summary_ret,
                   ref_ret, telemetryVars,
                   reference_ret, weatherVars, agentVars>>

\* a page runs compute_reference_laps of core/determine_reference.py on the
\* uploaded laps file
DetermineReference ==
    /\ reference_ret' = determine_reference_compute_reference_laps(laps_file, laps_pos, car_number)
    /\ laps_pos' = "end"
    /\ UNCHANGED <<t, ret, sectors_file, laps_file, car_number, deltas_ret, summary_ret,
                   ref_ret, stats_ret, telemetryVars, weatherVars, agentVars>>

\* the chat handler calls run_agent: the persona check
RunAgent ==
    /\ agent_pc = "idle"
    /\ clean_history # <<>>
    /\ messages' = WithPersona(clean_history)
    /\ agent_pc' = "request"
    /\ UNCHANGED <<lapVars, car_number, telemetryVars, weatherVars, clean_history, agent_ret>>

\* the language model answers a request: run_agent appends the answer, runs
\* the tool calls it carries in order and appends their results, until one
\* raises; with no tool call it returns the answer's content
ModelResponse ==
    /\ agent_pc = "request"
    /\ \E n \in 0..(MaxToolCalls - Requested(messages)) :
       \E asked \in [1..n -> ToolRequests] :
           LET tool_calls == [j \in 1..n |->
                                 [id        |-> Requested(messages) + j,
                                  name      |-> asked[j].name,
                                  arguments |-> asked[j].arguments]]
               msg_dict   == [role         |-> "assistant",
                              content      |-> ToString(Replies(messages) + 1),
                              tool_calls   |-> tool_calls,
                              tool_call_id |-> 0]
               done       == Executed(tool_calls)
               ran(name)  == \E j \in 1..done :
                                 tool_calls[j].name = name /\ tool_calls[j].arguments = "valid"
           IN  /\ messages' =
                      Append(messages, msg_dict)
                          \o [j \in 1..done |->
                                 ToolMessage(tool_calls[j],
                                             ToolResult(tool_calls[j], sectors_file, laps_file,
                                                        telemetry_df, car_number, t))]
               /\ agent_pc' = IF done < n THEN "raised"
                              ELSE IF n > 0 THEN "request"
                              ELSE "returned"
               /\ agent_ret' = IF done < n
                               THEN [kind |-> "raise", content |-> DispatchError(tool_calls[done + 1])]
                               ELSE IF n > 0 THEN agent_ret
                               ELSE [kind |-> "return", content |-> msg_dict.content]
               /\ laps_pos' = IF ran("tool_compute_reference_laps") THEN "end" ELSE laps_pos
               /\ telemetry_df' = IF ran("tool_telemetry_summary")
                                  THEN telemetry_tool(telemetry_df, car_number).df
                                  ELSE telemetry_df
    /\ UNCHANGED <<t, ret, sectors_file, laps_file, car_number, deltas_ret, summary_ret, ref_ret,
                   stats_ret, reference_ret, telemetry_ret, summarize_ret, gg_ret, steeringVars,
                   weatherVars, clean_history>>

\* the analysis page: the chat and, while no agent runs, the summary of deltas
InitAgent ==
    /\ Idle
    /\ weather_file = <<>>
    /\ clean_history \in Histories
    /\ car_number \in CarNumbers
    /\ t = IF car_number = 7 THEN ArgStr(<<"1", ":", "0", "7">>) ELSE ArgStr(<<"x">>)
    /\ sectors_file \in AgentSectorsFiles
    /\ laps_file = AgentLapsFile
    /\ telemetry_df = AgentTelemetry

NextAgent ==
    \/ RunAgent
    \/ ModelResponse
    \/ agent_pc = "idle" /\ SummaryDeltas

SpecAgent == InitAgent /\ [][NextAgent]_vars

InitParse ==
    /\ Idle
    /\ weather_file = <<>>
    /\ clean_history = <<>>
    /\ t \in TimeArgs
    /\ sectors_file = NoFile
    /\ laps_file = NoLapsFile
    /\ car_number = 0
    /\ telemetry_df = NoTable

NextParse == CallTimeToSeconds

SpecParse == InitParse /\ [][NextParse]_vars

InitDelta ==
    /\ Idle
    /\ weather_file = <<>>
    /\ clean_history = <<>>
    /\ t = ArgNone
    /\ sectors_file \in SectorsFiles(CleanRows)
    /\ laps_file = NoLapsFile
    /\ car_number \in CarNumbers
    /\ telemetry_df = NoTable

NextDelta == DeltasTool \/ SummaryDeltas

SpecDelta == InitDelta /\ [][NextDelta]_vars

InitDirty ==
    /\ Idle
    /\ weather_file = <<>>
    /\ clean_history = <<>>
    /\ t = ArgNone
    /\ sectors_file \in SectorsFiles(DirtyRows)
    /\ laps_file = NoLapsFile
    /\ car_number \in CarNumbers
    /\ telemetry_df = NoTable

SpecDirty == InitDirty /\ [][NextDelta]_vars

InitShuffled ==
    /\ Idle
    /\ weather_file = <<>>
    /\ clean_history = <<>>
    /\ t = ArgNone
    /\ sectors_file \in ShuffledFiles
    /\ laps_file = NoLapsFile
    /\ car_number \in CarNumbers
    /\ telemetry_df = NoTable

NextShuffled == DeltasTool

SpecShuffled == InitShuffled /\ [][NextShuffled]_vars

\* the agent's tool runs telemetry_tool on the cached telemetry table
TelemetryTool ==
    /\ \E call \in {telemetry_tool(telemetry_df, car_number)} :
           /\ telemetry_ret' = call.ret
           /\ telemetry_df' = call.df
           /\ steering_angle_data' = call.steering.steering_angle_data
           /\ micro_corrections_count' = call.steering.micro_corrections_count
           /\ total_time_seconds' = call.steering.total_time_seconds
    /\ UNCHANGED <<lapVars, car_number, summarize_ret, gg_ret, weatherVars, agentVars>>

\* the dashboard draws the telemetry summary of the cached table
SummarizeTelemetry ==
    /\ summarize_ret' = summarize_telemetry(telemetry_df, car_number).ret
    /\ telemetry_df' = summarize_telemetry(telemetry_df, car_number).df
    /\ UNCHANGED <<lapVars, car_number, telemetry_ret, gg_ret, steeringVars, weatherVars,
                   agentVars>>

\* the dashboard draws the friction circle of the cached table
GgPlot ==
    /\ gg_ret' = gg_plot(telemetry_df, car_number).ret
    /\ telemetry_df' = gg_plot(telemetry_df, car_number).df
    /\ UNCHANGED <<lapVars, car_number, telemetry_ret, summarize_ret, steeringVars, weatherVars,
                   agentVars>>

InitSteer ==
    /\ Idle
    /\ weather_file = <<>>
    /\ clean_history = <<>>
    /\ t = ArgNone
    /\ sectors_file = NoFile
    /\ laps_file = NoLapsFile
    /\ car_number = 7
    /\ telemetry_df \in SteerTables

NextSteer == TelemetryTool

SpecSteer == InitSteer /\ [][NextSteer]_vars

InitSession ==
    /\ Idle
    /\ weather_file = <<>>
    /\ clean_history = <<>>
    /\ t = ArgNone
    /\ sectors_file = NoFile
    /\ laps_file = NoLapsFile
    /\ car_number = 7
    /\ telemetry_df \in SessionTables

NextSession == TelemetryTool

SpecSession == InitSession /\ [][NextSession]_vars

\* the dashboard draws the weather summary of the uploaded weather file
RenderWeatherSummary ==
    /\ weather_status' = render_weather_summary(weather_file)
    /\ UNCHANGED <<lapVars, car_number, telemetryVars, weather_file, agentVars>>

InitWeather ==
    /\ Idle
    /\ clean_history = <<>>
    /\ t = ArgNone
    /\ sectors_file = NoFile
    /\ laps_file = NoLapsFile
    /\ car_number = 0
    /\ telemetry_df = NoTable
    /\ weather_file \in WeatherFiles

NextWeather == RenderWeatherSummary

SpecWeather == InitWeather /\ [][NextWeather]_vars

InitTelemetry ==
    /\ Idle
    /\ weather_file = <<>>
    /\ clean_history = <<>>
    /\ t = ArgNone
    /\ sectors_file = NoFile
    /\ laps_file = NoLapsFile
    /\ car_number \in TelemetryCars
    /\ telemetry_df \in UncleanTables

NextTelemetry == TelemetryTool \/ SummarizeTelemetry \/ GgPlot

SpecTelemetry == InitTelemetry /\ [][NextTelemetry]_vars

InitRef ==
    /\ Idle
    /\ weather_file = <<>>
    /\ clean_history = <<>>
    /\ t = ArgNone
    /\ sectors_file = NoFile
    /\ laps_file \in LapsFiles
    /\ car_number \in CarNumbers
    /\ telemetry_df = NoTable

NextRef == ComputeReferenceLaps \/ DisplayKeySummaryStats

SpecRef == InitRef /\ [][NextRef]_vars

\* the core operations called again and again on the same uploads
InitRepeat == InitShuffled \/ InitRef \/ InitTelemetry

NextRepeat ==
    \/ DeltasTool
    \/ ComputeReferenceLaps
    \/ DetermineReference
    \/ DisplayKeySummaryStats
    \/ TelemetryTool

SpecRepeat == InitRepeat /\ [][NextRepeat]_vars

Init ==
    \/ InitParse
    \/ InitDelta
    \/ InitDirty
    \/ InitShuffled
    \/ InitRef
    \/ InitSteer
    \/ InitSession
    \/ InitTelemetry
    \/ InitWeather
    \/ InitAgent

Next ==
    \/ CallTimeToSeconds
    \/ DeltasTool
    \/ SummaryDeltas
    \/ ComputeReferenceLaps
    \/ DisplayKeySummaryStats
    \/ TelemetryTool
    \/ SummarizeTelemetry
    \/ GgPlot
    \/ RenderWeatherSummary
    \/ DetermineReference
    \/ RunAgent
    \/ ModelResponse

Spec == Init /\ [][Next]_vars

(***************************************************************************)
(* Reference values the properties compare the results with                *)
(***************************************************************************)
\* value of a digit string, by the weight of each position
RECURSIVE RefNat(_)
RefNat(s) == IF s = <<>> THEN 0 ELSE DigitVal[Head(s)] * Pow10(Len(s) - 1) + RefNat(Tail(s))

\* "SS" or "SS.sss"
IsSecondsText(s) ==
    \/ IsDigits(s)
    \/ \E d \in 2..(Len(s) - 1) :
        /\ s[d] = "."
        /\ IsDigits(SubSeq(s, 1, d - 1))
        /\ IsDigits(SubSeq(s, d + 1, Len(s)))

\* "SS[.sss]", "M:SS[.sss]" or "H:MM:SS[.sss]"
IsCanonical(s) ==
    LET parts == Split(s, ":") IN
    /\ Len(parts) \in 1..3
    /\ \A k \in 1..(Len(parts) - 1) : IsDigits(parts[k])
    /\ IsSecondsText(parts[Len(parts)])

\* the seconds a canonical text stands for, as <<n, k>> = n / 10^k
RefSeconds(s) ==
    LET parts == Split(s, ":")
        n     == Len(parts)
        sec   == parts[n]
        dots  == Positions(sec, ".")
        whole == IF dots = {} THEN sec ELSE SubSeq(sec, 1, MinOfSet(dots) - 1)
        frac  == IF dots = {} THEN <<>> ELSE SubSeq(sec, MinOfSet(dots) + 1, Len(sec))
        mins  == IF n >= 2 THEN RefNat(parts[n - 1]) ELSE 0
        hours == IF n = 3 THEN RefNat(parts[1]) ELSE 0
    IN  <<(hours * 3600 + mins * 60 + RefNat(whole)) * Pow10(Len(frac)) + RefNat(frac),
          Len(frac)>>

SameValue(a, b) == ~IsNaN(a) /\ ~IsNaN(b) /\ a[1] * Pow10(b[2]) = b[1] * Pow10(a[2])

\* rows of the sectors file that belong to the requested vehicle
VehicleRows == {i \in Rows(sectors_file) : sectors_file[i].NUMBER = PyStr(car_number)}

Fields == {"S1", "S2", "S3", "LAP"}

\* a missing lap time is NaN, a canonical one its seconds
RowLap(i) ==
    LET c == sectors_file[i].LAP_TIME IN
    IF c.ty = "str" /\ IsCanonical(c.str)
    THEN Norm(RefSeconds(c.str)[1], RefSeconds(c.str)[2])
    ELSE NaN

RowVal(i, c) ==
    CASE c = "S1" -> sectors_file[i].S1_SECONDS
      [] c = "S2" -> sectors_file[i].S2_SECONDS
      [] c = "S3" -> sectors_file[i].S3_SECONDS
      [] c = "LAP" -> RowLap(i)

BestVal(b, c) ==
    CASE c = "S1" -> b.S1
      [] c = "S2" -> b.S2
      [] c = "S3" -> b.S3
      [] c = "LAP" -> b.LAP

DeltaPersonal(r, c) ==
    CASE c = "S1" -> r.Delta_S1_Personal
      [] c = "S2" -> r.Delta_S2_Personal
      [] c = "S3" -> r.Delta_S3_Personal
      [] c = "LAP" -> r.Delta_Lap_Personal

DeltaReference(r, c) ==
    CASE c = "S1" -> r.Delta_S1_Reference
      [] c = "S2" -> r.Delta_S2_Reference
      [] c = "S3" -> r.Delta_S3_Reference
      [] c = "LAP" -> r.Delta_Lap_Reference

\* the least value of field c over the rows I, NaN when none has a value
LeastVal(I, c) ==
    LET V == {RowVal(i, c) : i \in {j \in I : ~IsNaN(RowVal(j, c))}} IN
    IF V = {} THEN NaN ELSE CHOOSE x \in V : \A y \in V : FLe(x, y)

MalformedLapTime(i) ==
    sectors_file[i].LAP_TIME.ty = "str" /\ ~IsCanonical(sectors_file[i].LAP_TIME.str)

DeltaRecords == 1..Len(deltas_ret.deltas)

(***************************************************************************)
(* Properties                                                              *)
(***************************************************************************)
\* C1: time_to_seconds never raises: whatever the argument, the call ends
\* in a seconds value or the null result.
C1_NeverRaises == ret.kind # "raise"

\* C2: one unparseable lap time does not abort the analysis: when the
\* vehicle has rows in a table whose NUMBER column is numeric, deltas_tool
\* returns a result.
C2_BadLapTimeTolerated ==
    (deltas_ret.kind # "none" /\ NumberIsNumeric(sectors_file) /\ VehicleRows # {})
        => deltas_ret.kind = "ok"

\* C3: a canonical text "SS[.sss]", "M:SS[.sss]" or "H:MM:SS[.sss]" is
\* converted to the seconds it stands for, and a number is returned
\* unchanged.
C3_CanonicalValue ==
    ret.kind # "none" =>
        /\ (t.ty = "str" /\ IsCanonical(t.str)) =>
               (ret.kind = "return" /\ SameValue(ret.v, RefSeconds(t.str)))
        /\ t.ty = "num" => ret = Returned(t.num)

C3_Witness ==
    /\ t.ty = "str"
    /\ IsCanonical(t.str)
    /\ Len(Split(t.str, ":")) = 3
    /\ ret.kind = "return"
    /\ FLt(FInt(3600), ret.v)

\* C4: a vehicle number with no row in the table ends in the not-found
\* failure, in deltas_tool and in summary_deltas, whatever else the table
\* holds.
C4_NotFoundDeterministic ==
    VehicleRows = {} =>
        /\ deltas_ret.kind \in {"none", "not_found"}
        /\ summary_ret.kind \in {"none", "not_found"}

\* C5: when the table holds the vehicle number as text, the sector-delta
\* computation falls back to the comparison on str and does not report
\* not-found.
C5_StringFallback ==
    VehicleRows # {} =>
        /\ deltas_ret.kind # "not_found"
        /\ summary_ret.kind # "not_found"

\* C6: the bests are minima over the vehicle's rows (personal) and over all
\* rows (session); the lap best is the least of the parsed lap times, in
\* deltas_tool and in summary_deltas.
C6_BestsAreMinima ==
    /\ deltas_ret.kind = "ok" =>
           \A c \in Fields :
               /\ BestVal(deltas_ret.personal_best, c) = LeastVal(VehicleRows, c)
               /\ BestVal(deltas_ret.reference_bests, c) = LeastVal(Rows(sectors_file), c)
    /\ summary_ret.kind = "ok" =>
           /\ summary_ret.personal_bests.S1_SECONDS = LeastVal(VehicleRows, "S1")
           /\ summary_ret.personal_bests.S2_SECONDS = LeastVal(VehicleRows, "S2")
           /\ summary_ret.personal_bests.S3_SECONDS = LeastVal(VehicleRows, "S3")
           /\ time_to_seconds(summary_ret.personal_bests.LAP_TIME).v = LeastVal(VehicleRows, "LAP")
           /\ summary_ret.session_best_lap_s = LeastVal(Rows(sectors_file), "LAP")

\* C7: for every row of the vehicle and every field with a value, session
\* best <= personal best <= the row's value; every delta that is not null is
\* >= 0; and every field the vehicle has a value for has a lap whose delta
\* to the personal best is 0.
C7_BestsBelowLaps ==
    deltas_ret.kind = "ok" =>
        /\ \A i \in VehicleRows, c \in Fields :
               ~IsNaN(RowVal(i, c)) =>
                   /\ FLe(BestVal(deltas_ret.reference_bests, c),
                          BestVal(deltas_ret.personal_best, c))
                   /\ FLe(BestVal(deltas_ret.personal_best, c), RowVal(i, c))
        /\ \A k \in DeltaRecords, c \in Fields :
               /\ IsNaN(DeltaPersonal(deltas_ret.deltas[k], c))
                      \/ FLe(FInt(0), DeltaPersonal(deltas_ret.deltas[k], c))
               /\ IsNaN(DeltaReference(deltas_ret.deltas[k], c))
                      \/ FLe(FInt(0), DeltaReference(deltas_ret.deltas[k], c))
        /\ \A c \in Fields :
               (\E i \in VehicleRows : ~IsNaN(RowVal(i, c))) =>
                   \E k \in DeltaRecords : DeltaPersonal(deltas_ret.deltas[k], c) = FInt(0)

C7_Witness ==
    /\ deltas_ret.kind = "ok"
    /\ Len(deltas_ret.deltas) >= 2
    /\ \E k \in DeltaRecords : FLt(FInt(0), deltas_ret.deltas[k].Delta_S1_Personal)
    /\ \E k \in DeltaRecords : FLt(FInt(0), deltas_ret.deltas[k].Delta_Lap_Reference)
    /\ FLt(deltas_ret.reference_bests.S3, deltas_ret.personal_best.S3)

\* every lap of the vehicle has a lap time equal to the sum of its sectors
ConsistentLaps ==
    \A i \in VehicleRows :
        /\ ~IsNaN(RowLap(i))
        /\ RowLap(i) = FAdd(FAdd(RowVal(i, "S1"), RowVal(i, "S2")), RowVal(i, "S3"))

OwnOptimalLap ==
    FAdd(FAdd(LeastVal(VehicleRows, "S1"), LeastVal(VehicleRows, "S2")),
         LeastVal(VehicleRows, "S3"))

\* C8: optimal_lap is the sum of the vehicle's own three best sectors, and
\* when every lap's time is the sum of its sectors it is <= each lap time.
C8_OptimalLap ==
    /\ deltas_ret.kind = "ok" =>
           /\ deltas_ret.optimal_lap = OwnOptimalLap
           /\ ConsistentLaps => \A i \in VehicleRows : FLe(deltas_ret.optimal_lap, RowLap(i))
    /\ summary_ret.kind = "ok" =>
           /\ summary_ret.optimal_lap = OwnOptimalLap
           /\ ConsistentLaps => \A i \in VehicleRows : FLe(summary_ret.optimal_lap, RowLap(i))

C8_Witness ==
    /\ deltas_ret.kind = "ok"
    /\ summary_ret.kind = "ok"
    /\ ConsistentLaps
    /\ Cardinality(VehicleRows) >= 2
    /\ \A i \in VehicleRows : FLt(deltas_ret.optimal_lap, RowLap(i))
    /\ FLt(FAdd(FAdd(deltas_ret.reference_bests.S1, deltas_ret.reference_bests.S2),
                deltas_ret.reference_bests.S3),
           deltas_ret.optimal_lap)

\* the row a delta record was computed from
RecordRow(k) == deltas_ret.deltas[k].Lap

\* C9: missing data never makes deltas_tool fail, and a delta is null
\* exactly when its own row value is missing, otherwise the row value minus
\* the best; a column with no value at all has a null best.
C9_NullPropagation ==
    /\ deltas_ret.kind \notin {"none", "ok"} =>
           (VehicleRows = {} \/ \E i \in Rows(sectors_file) : MalformedLapTime(i))
    /\ deltas_ret.kind = "ok" =>
           /\ \A k \in DeltaRecords, c \in Fields :
                  LET v == RowVal(RecordRow(k), c)
                      r == deltas_ret.deltas[k]
                  IN  IF IsNaN(v)
                      THEN IsNaN(DeltaPersonal(r, c)) /\ IsNaN(DeltaReference(r, c))
                      ELSE /\ DeltaPersonal(r, c) = FSub(v, LeastVal(VehicleRows, c))
                           /\ DeltaReference(r, c) = FSub(v, LeastVal(Rows(sectors_file), c))
                           /\ ~IsNaN(DeltaPersonal(r, c))
                           /\ ~IsNaN(DeltaReference(r, c))
           /\ \A c \in Fields :
                  (\A i \in Rows(sectors_file) : IsNaN(RowVal(i, c))) =>
                      IsNaN(BestVal(deltas_ret.reference_bests, c))

C9_Witness ==
    /\ deltas_ret.kind = "ok"
    /\ \E k \in DeltaRecords :
           /\ IsNaN(deltas_ret.deltas[k].Delta_S1_Personal)
           /\ IsNaN(deltas_ret.deltas[k].Delta_S1_Reference)
           /\ deltas_ret.deltas[k].Delta_S2_Reference = FInt(0)
           /\ deltas_ret.deltas[k].Delta_Lap_Personal = FInt(4)
    /\ \E k \in DeltaRecords :
           /\ deltas_ret.deltas[k].Delta_S1_Personal = FInt(1)
           /\ IsNaN(deltas_ret.deltas[k].Delta_Lap_Reference)

\* number of the vehicle's rows with a lap time
ValidLapCount == Cardinality({i \in VehicleRows : ~IsNaN(RowLap(i))})

\* C10: the consistency score is null exactly when the vehicle has fewer
\* than 2 lap times; with 2 or more it is a number.
C10_ScoreNullIffFewLaps ==
    deltas_ret.kind = "ok" => (deltas_ret.consistency_score.null <=> ValidLapCount < 2)

\* the vehicle's rows that have a lap time
ValidLapRows == {i \in VehicleRows : ~IsNaN(RowLap(i))}

IdenticalLaps == \A i, j \in ValidLapRows : RowLap(i) = RowLap(j)

\* C11: a returned consistency score lies in 0..100, and a vehicle with at
\* least 2 lap times that are all identical scores exactly 100.
C11_ScoreBounds ==
    deltas_ret.kind = "ok" =>
        /\ ~deltas_ret.consistency_score.null =>
               /\ 0 <= deltas_ret.consistency_score.lo
               /\ deltas_ret.consistency_score.lo <= deltas_ret.consistency_score.hi
               /\ deltas_ret.consistency_score.hi <= 100
        /\ (ValidLapCount >= 2 /\ IdenticalLaps) =>
               deltas_ret.consistency_score = Score(100, 100)

C11_Witness ==
    /\ deltas_ret.kind = "ok"
    /\ ValidLapCount >= 2
    /\ IdenticalLaps
    /\ deltas_ret.consistency_score = Score(100, 100)
    /\ \E i \in ValidLapRows : RowLap(i) = FInt(9)

\* the vehicle's rows numbered lap, and the records of lap
LapRowsOf(lap) == {i \in VehicleRows : sectors_file[i].LAP_NUMBER = lap}

LapRecordsOf(lap) == {k \in DeltaRecords : deltas_ret.deltas[k].Lap = lap}

\* C12: deltas holds exactly one record per row of the requested vehicle,
\* each with the lap delta of its row, none for another vehicle, and the
\* records are in ascending lap-number order whatever the order of the rows.
C12_OneRecordPerLapAscending ==
    deltas_ret.kind = "ok" =>
        /\ Len(deltas_ret.deltas) = Cardinality(VehicleRows)
        /\ \A lap \in 1..(MaxRows + 1) :
               /\ Cardinality(LapRecordsOf(lap)) = Cardinality(LapRowsOf(lap))
               /\ {deltas_ret.deltas[k].Delta_Lap_Personal : k \in LapRecordsOf(lap)}
                      = {FSub(RowLap(i), LeastVal(VehicleRows, "LAP")) : i \in LapRowsOf(lap)}
        /\ \A k \in DeltaRecords :
               k > 1 => deltas_ret.deltas[k - 1].Lap <= deltas_ret.deltas[k].Lap

\* the vehicle's rows come in descending lap order between rows of the other
C12_Witness ==
    /\ deltas_ret.kind = "ok"
    /\ Len(deltas_ret.deltas) = 2
    /\ Len(sectors_file) = 3
    /\ sectors_file[1].NUMBER = PyStr(car_number)
    /\ sectors_file[2].NUMBER # PyStr(car_number)
    /\ sectors_file[3].NUMBER = PyStr(car_number)
    /\ sectors_file[1].LAP_NUMBER > sectors_file[3].LAP_NUMBER
    /\ deltas_ret.deltas[1].Lap < deltas_ret.deltas[2].Lap

\* the row of the laps file compute_reference_laps reads: the first of the vehicle
RefRows == {i \in Rows(laps_file.rows) : laps_file.rows[i].NUMBER = PyStr(car_number)}

RefRow == laps_file.rows[MinOfSet(RefRows)]

\* the best-lap slots BESTLAP_n of the laps file, without their _LAPNUM columns
SlotCols == {k \in 1..Len(laps_file.cols) :
                Len(laps_file.cols[k]) = 2 /\ laps_file.cols[k][1] = "BESTLAP_"}

MissingSlots == {k \in SlotCols : RefRow.cells[k].ty = "none"}

RankedLaps == 1..Len(ref_ret.lap_order)

\* C13: a best-lap slot whose value is missing is dropped: it is not in
\* lap_order, is not the fastest lap, and no entry holds a null or 0 time in
\* its place.
C13_MissingSlotDropped ==
    ref_ret.kind = "ok" =>
        /\ \A k \in MissingSlots :
               /\ ref_ret.fastest_lap_name # laps_file.cols[k]
               /\ \A j \in RankedLaps : ref_ret.lap_order[j].lap # laps_file.cols[k]
        /\ \A j \in RankedLaps :
               /\ ~IsNaN(ref_ret.lap_order[j].time_seconds)
               /\ ref_ret.lap_order[j].time_seconds # FInt(0)

\* a slot holds a valid value when its cell is a lap time "M:SS[.sss]"
ValidSlots == {k \in SlotCols : RefRow.cells[k].ty = "str" /\ IsCanonical(RefRow.cells[k].str)}

\* C14: when the vehicle is in the laps table and none of its best-lap slots
\* holds a valid value, compute_reference_laps ends in a failure of its own:
\* not a result, not the not-found failure, not the IndexError of reading the
\* first entry of an empty ranking, not the ValueError of a conversion.
C14_NoValidLapsError ==
    (ref_ret.kind # "none" /\ RefRows # {} /\ ValidSlots = {}) =>
        ref_ret.kind \notin {"ok", "not_found", "index_error", "value_error"}

\* the seconds of a valid slot, and the position of a column in the table
SlotSeconds(k) == Norm(RefSeconds(RefRow.cells[k].str)[1], RefSeconds(RefRow.cells[k].str)[2])

ColIndex(col) == CHOOSE k \in 1..Len(laps_file.cols) : laps_file.cols[k] = col

\* C15: lap_order is ascending by seconds, entries with equal seconds keep
\* the order of their columns, and the fastest lap is the first entry, its
\* seconds the minimum over the valid slots.
C15_RankingSorted ==
    ref_ret.kind = "ok" =>
        /\ \A j, k \in RankedLaps :
               j < k =>
                   /\ FLe(ref_ret.lap_order[j].time_seconds, ref_ret.lap_order[k].time_seconds)
                   /\ ref_ret.lap_order[j].time_seconds = ref_ret.lap_order[k].time_seconds
                          => ColIndex(ref_ret.lap_order[j].lap) < ColIndex(ref_ret.lap_order[k].lap)
        /\ ref_ret.fastest_lap_name = ref_ret.lap_order[1].lap
        /\ ref_ret.fastest_lap_time_seconds = ref_ret.lap_order[1].time_seconds
        /\ \A k \in ValidSlots : FLe(ref_ret.fastest_lap_time_seconds, SlotSeconds(k))
        /\ ValidSlots # {} =>
               \E k \in ValidSlots : ref_ret.fastest_lap_time_seconds = SlotSeconds(k)

\* the vehicles of the laps table with a lap time in a slot, and a vehicle's
\* best over all its rows
TimedCells(n) ==
    {<<i, k>> \in Rows(laps_file.rows) \X (1..Len(laps_file.cols)) :
        /\ laps_file.rows[i].NUMBER = n
        /\ Len(laps_file.cols[k]) = 2
        /\ laps_file.cols[k][1] = "BESTLAP_"
        /\ laps_file.rows[i].cells[k].ty = "str"
        /\ IsCanonical(laps_file.rows[i].cells[k].str)}

CellSeconds(c) ==
    LET x == RefSeconds(laps_file.rows[c[1]].cells[c[2]].str) IN Norm(x[1], x[2])

TimedVehicles == {n \in {laps_file.rows[i].NUMBER : i \in Rows(laps_file.rows)} : TimedCells(n) # {}}

VehicleBest(n) ==
    CHOOSE x \in {CellSeconds(c) : c \in TimedCells(n)} :
        \A c \in TimedCells(n) : FLe(x, CellSeconds(c))

\* C16: driver_position is the 1-based position of the driver's personal best
\* among the personal bests of the vehicles, one per vehicle, ties not
\* deduplicated: 1 + the number of vehicles with a lower personal best, and
\* at most the number of vehicles.
C16_PositionAmongVehicles ==
    stats_ret.kind = "ok" =>
        /\ stats_ret.driver_position =
               1 + Cardinality({n \in TimedVehicles :
                                   FLt(VehicleBest(n), VehicleBest(PyStr(car_number)))})
        /\ stats_ret.driver_position >= 1
        /\ stats_ret.driver_position <= Cardinality(TimedVehicles)

\* C17: gap_to_fastest is the driver's personal best minus the session's
\* fastest time: never negative, and 0 exactly when the driver is fastest.
C17_GapNonNegative ==
    stats_ret.kind = "ok" =>
        /\ stats_ret.gap_to_fastest = FSub(stats_ret.personal_best, stats_ret.session_fastest)
        /\ FLe(FInt(0), stats_ret.gap_to_fastest)
        /\ stats_ret.gap_to_fastest = FInt(0)
               <=> stats_ret.personal_best = stats_ret.session_fastest

\* the table has a column whose name contains "vehicle" in any case
VehicleLikeColumn ==
    \E k \in 1..Len(telemetry_df.columns) :
        \E i \in 1..(Len(telemetry_df.columns[k]) - 6) :
            Lower(SubSeq(telemetry_df.columns[k], i, i + 6)) = <<"v", "e", "h", "i", "c", "l", "e">>

\* C18: a table with a column whose name contains "vehicle" does not fail on
\* the vehicle column: telemetry_tool, summarize_telemetry and gg_plot go on
\* with the exact or the first matching column; a table with no such column
\* ends telemetry_tool in the missing-column failure.
C18_VehicleColumnFallback ==
    /\ VehicleLikeColumn =>
           /\ telemetry_ret.kind \notin {"warning_using_column", "value_error"}
           /\ summarize_ret.kind # "no_column"
           /\ gg_ret.kind # "no_column"
    /\ (~VehicleLikeColumn /\ telemetry_ret.kind # "none") => telemetry_ret.kind = "value_error"

\* the angles and the sample times of the steering series in the table
SteerSamples == Rows(telemetry_df.rows)

ConstantAngle ==
    /\ SteerSamples # {}
    /\ \A i \in SteerSamples : telemetry_df.rows[i][4].ty = "num"
    /\ \A i, j \in SteerSamples : telemetry_df.rows[i][4].v = telemetry_df.rows[j][4].v

SampleTimes == {telemetry_df.rows[i][1].v : i \in SteerSamples}

\* the sample times that follow another sample time by at most 0.5 s: each
\* gives one valid steering rate
RatedTimes == {x \in SampleTimes : \E y \in SampleTimes : y < x /\ x - y <= 5}

C20_TableNotMutated == [][telemetry_df' = telemetry_df]_vars

\* the steering table of the last call holds every sample of the series
\* once, ordered by timestamp
SteeringSorted ==
    /\ Len(steering_angle_data) = Cardinality(SteerSamples)
    /\ \A x \in SampleTimes :
           Cardinality({i \in SteerSamples : telemetry_df.rows[i][1].v = x})
               = Cardinality({n \in DOMAIN steering_angle_data :
                                 steering_angle_data[n].timestamp = x})
    /\ \A m, n \in DOMAIN steering_angle_data :
           m < n => steering_angle_data[m].timestamp <= steering_angle_data[n].timestamp

\* time from the previous steering sample to sample n, in tenths of a
\* second; 0 for the first sample
SinceLast(n) ==
    IF n = 1 THEN 0
    ELSE steering_angle_data[n].timestamp - steering_angle_data[n - 1].timestamp

\* the samples whose time difference allows a rate
Rated == {n \in DOMAIN steering_angle_data : 0 < SinceLast(n) /\ SinceLast(n) <= 5}

\* C23: the steering rate of a sample is non-null exactly when 0 < dt <= 0.5 s
\* to the previous sample in timestamp order, and then it is (angle - previous
\* angle) / dt (stated for numeric angles); the first sample, duplicate
\* timestamps and samples after a longer gap have a null rate and do not
\* enter the rate statistics.
C23_RateValidity ==
    telemetry_ret.kind = "ok" =>
        /\ SteeringSorted
        /\ \A n \in DOMAIN steering_angle_data :
               /\ steering_angle_data[n].Steering_Rate.null <=> n \notin Rated
               /\ (/\ n \in Rated
                   /\ steering_angle_data[n].telemetry_value.ty = "num"
                   /\ steering_angle_data[n - 1].telemetry_value.ty = "num") =>
                      steering_angle_data[n].Steering_Rate.v * SinceLast(n)
                          = (RateScale \div 10)
                                * (steering_angle_data[n].telemetry_value.v
                                       - steering_angle_data[n - 1].telemetry_value.v)
        /\ telemetry_ret.steering_usage.std_steering_rate.null <=> Cardinality(Rated) < 2
        /\ ~telemetry_ret.steering_usage.std_steering_rate.null =>
               telemetry_ret.steering_usage.std_steering_rate.n = Cardinality(Rated)
        /\ telemetry_ret.steering_smoothness_score.null <=> Cardinality(Rated) < 2
        /\ micro_corrections_count <= MaxOf(Cardinality(Rated) - 1, 0)

\* a rated sample with a non-zero rate followed by a sample after a gap
C23_Witness ==
    /\ telemetry_ret.kind = "ok"
    /\ Len(steering_angle_data) = 3
    /\ 2 \in Rated
    /\ steering_angle_data[2].Steering_Rate.v = 6000
    /\ SinceLast(3) > 5
    /\ steering_angle_data[3].Steering_Rate.null

\* the rated samples in order, as positions of the steering table
RECURSIVE RatedSeq(_)
RatedSeq(n) ==
    IF n = 0 THEN <<>>
    ELSE IF n \in Rated THEN Append(RatedSeq(n - 1), n)
    ELSE RatedSeq(n - 1)

\* the rounded rate of rated sample k reverses that of the rated sample
\* before it: positive to negative or negative to positive
Reversal(k) ==
    LET rated == RatedSeq(Len(steering_angle_data)) IN
    /\ k > 1
    /\ RateSign(steering_angle_data[rated[k]].Steering_Rate.v)
           * RateSign(steering_angle_data[rated[k - 1]].Steering_Rate.v) = -1

\* C24: the micro-correction count is the number of rated samples whose
\* rounded rate reverses sign against the previous rated sample while the
\* absolute rate is below 5 deg/s; a change between a zero and a non-zero
\* rounded rate is not counted.
C24_MicroCorrectionCount ==
    telemetry_ret.kind = "ok" =>
        micro_corrections_count =
            Cardinality({k \in 1..Cardinality(Rated) :
                /\ Reversal(k)
                /\ Abs(steering_angle_data[RatedSeq(Len(steering_angle_data))[k]].Steering_Rate.v)
                       < 5 * RateScale})

\* C29: a steering sample whose angle is null, or whose preceding sample's
\* angle is null, has a null steering rate, never a numeric one.
C29_NullAngleNullRate ==
    telemetry_ret.kind = "ok" =>
        \A n \in DOMAIN steering_angle_data :
            (\/ steering_angle_data[n].telemetry_value.ty # "num"
             \/ n > 1 /\ steering_angle_data[n - 1].telemetry_value.ty # "num") =>
                steering_angle_data[n].Steering_Rate.null

\* the rows of the table whose vehicle identifier is (or has become) the
\* sentinel -1: in the delivered tables, the rows whose identifier is not
\* numeric
SentinelRows == {i \in Rows(telemetry_df.rows) : telemetry_df.rows[i][2] \in {NumCell(-1), TextCell(<<"x">>)}}

\* the rows that belong to the requested vehicle by a numeric identifier
VehicleRowsOf(car) ==
    {i \in Rows(telemetry_df.rows) \ SentinelRows :
        /\ telemetry_df.rows[i][1].ty = "time"
        /\ telemetry_df.rows[i][2] = NumCell(car)}

\* C28: the features of a requested vehicle are built from the rows that
\* carry its number only; a row whose identifier is not numeric is selected
\* for no requested number, -1 included.
C28_SentinelNeverSelected ==
    telemetry_ret.kind = "ok" =>
        /\ VehicleRowsOf(car_number) # {}
        /\ Len(steering_angle_data) = Cardinality(VehicleRowsOf(car_number))

\* elapsed time of the steering session, last minus first sample, in tenths
\* of a second
SessionSpan ==
    IF steering_angle_data = <<>> THEN 0
    ELSE steering_angle_data[Len(steering_angle_data)].timestamp - steering_angle_data[1].timestamp

\* C25: micro_corrections_per_minute is 0 when the session lasts at most
\* 60 s, and otherwise the count divided by the elapsed minutes, the elapsed
\* time being last minus first steering timestamp, gaps included.
C25_PerMinuteOverElapsed ==
    telemetry_ret.kind = "ok" =>
        IF SessionSpan <= 600
        THEN telemetry_ret.micro_corrections_per_minute.num = 0
        ELSE telemetry_ret.micro_corrections_per_minute.num * SessionSpan
                 = micro_corrections_count * 600 * telemetry_ret.micro_corrections_per_minute.den

\* C27: for a vehicle of the laps table with at least one valid best-lap
\* slot, compute_reference_laps and display_key_summary_stats both return a
\* result and fastest_lap_time_seconds equals personal_best.
C27_ResolverMatchesAggregator ==
    (/\ ref_ret.kind # "none"
     /\ stats_ret.kind # "none"
     /\ RefRows # {}
     /\ ValidSlots # {}) =>
        /\ ref_ret.kind = "ok"
        /\ stats_ret.kind = "ok"
        /\ ref_ret.fastest_lap_time_seconds = stats_ret.personal_best

\* C30: the weather status follows the priority rain, wind, humidity:
\* "Rainy Conditions" only when rain was recorded, otherwise "Windy" for an
\* average wind speed above 8, otherwise "Humid / Cloudy" for an average
\* humidity above 70, otherwise "Clear & Dry".
C30_StatusByPriority ==
    weather_status # "none" =>
        weather_status =
            IF \E i \in 1..Len(weather_file) : weather_file[i].RAIN > 0 THEN "Rainy Conditions"
            ELSE IF weather_file # <<>>
                    /\ ColumnSum(weather_file, "WIND_SPEED") > 8 * Len(weather_file)
            THEN "Windy"
            ELSE IF weather_file # <<>>
                    /\ ColumnSum(weather_file, "HUMIDITY") > 70 * Len(weather_file)
            THEN "Humid / Cloudy"
            ELSE "Clear & Dry"

\* a step leaves every result a core operation has returned as it is: the
\* operation was not called, or it returned what it returned before
SameAsBefore ==
    /\ deltas_ret # NoResult => deltas_ret' = deltas_ret
    /\ ref_ret # NoResult => ref_ret' = ref_ret
    /\ reference_ret # NoResult => reference_ret' = reference_ret
    /\ stats_ret # NoResult => stats_ret' = stats_ret
    /\ telemetry_ret # NoResult => telemetry_ret' = telemetry_ret

\* C21: on the same uploads and vehicle number, every call of deltas_tool,
\* compute_reference_laps (either module), display_key_summary_stats and
\* telemetry_tool returns what its first call returned, whatever was called
\* before; the two compute_reference_laps agree.
C21_Repeatable ==
    [][/\ SameAsBefore
       /\ (ref_ret' # NoResult /\ reference_ret' # NoResult) => reference_ret' = ref_ret']_vars

\* the messages run_agent starts from, and the ones it has appended
AgentStart == Len(WithPersona(clean_history))

\* the persona is put first exactly when the history has no system message
PersonaEnsured ==
    /\ HasSystem(messages)
    /\ messages[1].role = "system"
    /\ IF HasSystem(clean_history)
       THEN SubSeq(messages, 1, Len(clean_history)) = clean_history
       ELSE /\ messages[1] = SYSTEM_PROMPT
            /\ SubSeq(messages, 2, Len(clean_history) + 1) = clean_history

\* each reply that carries tool calls is followed by one tool message per
\* call, in the order of the calls and with their ids, then by the next reply
ToolCallsAnswered ==
    /\ \A i \in 1..Len(messages) :
           messages[i].tool_calls # <<>> =>
               LET n == Len(messages[i].tool_calls)
               IN  /\ i + n <= Len(messages)
                   /\ \A j \in 1..n :
                          /\ messages[i + j].role = "tool"
                          /\ messages[i + j].tool_call_id = messages[i].tool_calls[j].id
                   /\ i + n < Len(messages) => messages[i + n + 1].role = "assistant"
    /\ \A k \in 1..Len(messages) :
           messages[k].role = "tool" =>
               \E i \in 1..(k - 1) :
                   /\ messages[i].role = "assistant"
                   /\ k - i <= Len(messages[i].tool_calls)
                   /\ \A m \in (i + 1)..k : messages[m].role = "tool"

\* the run returns the content of the last reply, which carries no tool call,
\* and goes on to the next request after a reply that carries some
ReturnsLastReply ==
    LET last == messages[Len(messages)]
    IN  /\ agent_pc = "returned" =>
               /\ Len(messages) > AgentStart
               /\ last.role = "assistant"
               /\ last.tool_calls = <<>>
               /\ agent_ret = [kind |-> "return", content |-> last.content]
        /\ agent_pc = "request" =>
               /\ agent_ret = NoReturn
               /\ Len(messages) > AgentStart => last.role = "tool"
        /\ \A i \in (AgentStart + 1)..(Len(messages) - 1) :
               messages[i].role = "assistant" => messages[i].tool_calls # <<>>

\* C26: while run_agent goes on or has returned, the persona is in the list
\* (inserted only when the history had no system message), every reply with
\* tool calls is followed by exactly one tool message per call, in order and
\* with the call's id, before the next request, and the run returns only
\* the content of a reply without tool calls
C26_ToolCallProtocol ==
    agent_pc \in {"request", "returned"} =>
        PersonaEnsured /\ ToolCallsAnswered /\ ReturnsLastReply

C26_Witness ==
    /\ agent_pc = "returned"
    /\ ~HasSystem(clean_history)
    /\ Len(messages) = AgentStart + 4
    /\ Len(messages[AgentStart + 1].tool_calls) = 2
    /\ messages[AgentStart + 2].tool_call_id = messages[AgentStart + 1].tool_calls[1].id
    /\ messages[AgentStart + 3].tool_call_id = messages[AgentStart + 1].tool_calls[2].id
    /\ messages[AgentStart + 2].content = "error"
    /\ messages[AgentStart + 3].content = "success"

\* summary_deltas is called by the analysis page outside any try: its
\* exception ends the page run
PageAborted == summary_ret.kind \in {"type_error", "value_error"}

\* C22: no exception leaves a tool call of run_agent or a call of the
\* dashboard: a failure ends in an error result or an error message
C22_NoRawException ==
    /\ agent_pc # "raised"
    /\ ~PageAborted

\* the part of C22 that holds: every tool call that is dispatched ends in a
\* tool message whose content is the status of a result
DispatchedCallsAnswered ==
    \A k \in 1..Len(messages) :
        messages[k].role = "tool" => messages[k].content \in {"error", "success", "seconds"}


====
